---- MODULE Spec2Model ----
(***************************************************************************)
(* A model of egui-desktop: the keyboard-shortcut parser and matcher       *)
(* (src/src/menu/shortcuts.rs), the title-bar themes (src/src/theme/mod.rs)*)
(* and the theme API of the title bar (src/src/theme/api.rs,               *)
(* src/src/titlebar/main.rs).                                              *)
(*                                                                         *)
(* Strings the code takes apart (the text given to from_string, the output *)
(* of the OS theme query) are sequences of one-character strings; strings  *)
(* the code only builds or compares are TLA+ strings.  Color32 values are  *)
(* <<r, g, b>> triples and the f32 sizes are their whole-number values.    *)
(***************************************************************************)
EXTENDS Integers, Sequences, FiniteSets, TLC

VARIABLES
    \* ---- shortcut matcher (shortcuts.rs)
    SHORTCUT_STATES,   \* the global HashMap<String, bool>
    input,             \* the input snapshot of the current frame
    called,            \* shortcuts whose just_pressed ran in the current frame
    observed,          \* the shortcut whose calls are recorded
    frame_cond,        \* per frame: was the observed shortcut's condition satisfied
    frame_result,      \* per frame: what just_pressed returned for it
    \* ---- shortcut parser (shortcuts.rs)
    text,              \* the argument of from_string
    built_from,        \* the tokens `text` was put together from
    parsed,            \* the Result of from_string, NotCalled before the call
    shown,             \* display_string of the parsed shortcut, or None
    \* ---- themes with overrides (theme/mod.rs)
    ov_base,           \* "light" or "dark": which *_with_overrides is called
    ov_args,           \* its 17 arguments
    ov_result,         \* the theme it returned, NotCalled before the call
    \* ---- the title bar's theme (theme/api.rs, titlebar/main.rs)
    tb,                \* the TitleBar: theme fields, theme_mode, provider, theme id
    ctx_visuals,       \* the egui context's Visuals
    platform,          \* the target_os of the build
    ops,               \* calls made on the title bar since TitleBar::new
    last_op,           \* the last call made
    last_arg,          \* its argument
    last_result,       \* what it returned
    last_query,        \* the OS theme query it made, NoQuery if none
    \* ---- custom icons of title bars (titlebar/api.rs)
    bars,              \* per title bar: custom_icons and icon_animation_states
    icon_frames,       \* frames begun since the title bars were built
    prev_input,        \* the input snapshot of the previous frame
    handled,           \* title bars whose handle_icon_shortcuts ran in this frame
    invoked,           \* per title bar: icons whose callback it invoked in this frame
    alone,             \* per title bar: SHORTCUT_STATES had only its own calls run
    invoked_alone,     \* per title bar: the callbacks invoked under `alone`
    \* ---- menu items (menu/items.rs)
    item,              \* the SubMenuItem the application is building
    menu_item,         \* the MenuItem the application is building
    builds,            \* builder calls made so far
    item_clone,        \* item.clone(), NotCalled before the call
    menu_clone,        \* menu_item.clone(), NotCalled before the call
    \* ---- native rounded corners (utils/rounded_corners.rs)
    INIT,              \* the static Once of apply_rounded_corners
    native_calls,      \* per window: calls of apply_native_rounded_corners made
    corner_calls,      \* calls of apply_rounded_corners made
    last_corner,       \* the last call: its frame, what was logged, how it ended
    \* ---- the starter application (cli/src/starter/app.rs)
    TOGGLE_SIDEBAR,           \* static AtomicBool
    THEME_CHANGE_REQUEST,     \* static AtomicU8, 0 = none
    CUSTOM_THEME_ID_REQUEST,  \* static Mutex<Option<String>>
    app,               \* CustomThemeDemoApp: app_theme, show_sidebar, selected_custom_id
    update_pc,         \* where update() stands in the current frame
    callback_pc,       \* the theme id a custom-theme callback has still to store
    requests,          \* counts: frames, stores, requests raised and acted on
    \* ---- the menu interaction of one title bar
    menu,              \* TitleBar: open_submenu, the guard, the keyboard navigation fields
    menu_log,          \* frames so far, the last input, the state before it, callbacks it invoked
    \* ---- threads inside just_pressed
    threads,           \* per thread: where it stands in just_pressed, its locals, its calls
    mutex,             \* the thread that holds the lock of SHORTCUT_STATES, if any
    true_returns       \* how many calls returned true

shortcutVars == <<SHORTCUT_STATES, input, called, observed, frame_cond, frame_result>>
parseVars    == <<text, built_from, parsed, shown>>
overrideVars == <<ov_base, ov_args, ov_result>>
themeVars    == <<tb, ctx_visuals, platform, ops, last_op, last_arg, last_result,
                 last_query>>
iconVars     == <<bars, icon_frames, prev_input, handled, invoked, alone,
                 invoked_alone>>
itemVars     == <<item, menu_item, builds, item_clone, menu_clone>>
cornerVars   == <<INIT, native_calls, corner_calls, last_corner>>
starterVars  == <<TOGGLE_SIDEBAR, THEME_CHANGE_REQUEST, CUSTOM_THEME_ID_REQUEST,
                 app, update_pc, callback_pc, requests>>
menuVars     == <<menu, menu_log>>
threadVars   == <<threads, mutex, true_returns>>
restVars     == <<iconVars, itemVars, cornerVars, starterVars, menuVars, threadVars>>
vars         == <<shortcutVars, parseVars, overrideVars, themeVars, restVars>>

None == "None"

(***************************************************************************)
(* Bounds of the model.                                                    *)
(***************************************************************************)
MaxFrames == 5      \* frames of input in one run of the shortcut matcher
MaxMods   == 2      \* modifier tokens before the key token of an input text
MaxOverrides == 2   \* arguments of a *_with_overrides call that are Some
MaxOps    == 2      \* calls made on a title bar after TitleBar::new
MaxIcons  == 2      \* custom icons added to the title bars, all together
MaxIconFrames == 1  \* frames in which icon shortcuts are handled
MaxBuild  == 4      \* builder calls on the menu items
MaxCornerCalls == 3 \* calls of apply_rounded_corners, one per frame
MaxUpdates == 2     \* frames of the starter application
MaxStores == 2      \* callbacks of the starter application that store a request
MaxMenuFrames == 5  \* frames of menu interaction
MaxThreads == 3     \* threads that call just_pressed
MaxCalls == 2       \* calls of just_pressed per thread

(***************************************************************************)
(* KeyboardShortcut and the input snapshot.                                *)
(***************************************************************************)
Keys == {"S", "P"}

\* struct KeyboardShortcut { key, modifiers }
KeyboardShortcut(key, ctrl, alt, shift, command) ==
    [key |-> key, ctrl |-> ctrl, alt |-> alt, shift |-> shift, command |-> command]

\* The shortcuts a menu of the model carries.
Shortcuts ==
    { KeyboardShortcut("S", TRUE, FALSE, FALSE, FALSE),    \* ctrl+s
      KeyboardShortcut("S", FALSE, FALSE, FALSE, TRUE),    \* cmd+s
      KeyboardShortcut("P", FALSE, TRUE, TRUE, FALSE) }    \* alt+shift+p

\* What ctx.input gives in one frame: the keys with a press event and the
\* modifiers held.
Inputs ==
    [pressed : {{}} \cup {{k} : k \in Keys}, ctrl : BOOLEAN, alt : BOOLEAN,
     shift : BOOLEAN, command : BOOLEAN]

BoolStr(b) == IF b THEN "true" ELSE "false"

\* format!("{:?}_{}_{}_{}_{}", key, ctrl, alt, shift, command)
ShortcutKey(s) ==
    s.key \o "_" \o BoolStr(s.ctrl) \o "_" \o BoolStr(s.alt) \o "_"
          \o BoolStr(s.shift) \o "_" \o BoolStr(s.command)

\* ctrl_held: either ctrl or cmd.
CtrlHeldNoCmd(i) == i.ctrl
CtrlHeld(i) == i.ctrl \/ i.command

\* The closure given to ctx.input in just_pressed.
CurrentFramePressed(s, i) ==
    LET key_pressed == s.key \in i.pressed
        ctrl_held   == CtrlHeld(i)
        ctrl_match  == IF s.ctrl THEN ctrl_held ELSE ~ctrl_held
        alt_match   == i.alt = s.alt
        shift_match == i.shift = s.shift
    IN  key_pressed /\ ctrl_match /\ alt_match /\ shift_match

\* states.get(&shortcut_key).copied().unwrap_or(false)
WasPressed(states, k) == IF k \in DOMAIN states THEN states[k] ELSE FALSE

\* states.insert(shortcut_key, current_frame_pressed)
InsertOnlyWhenPressed(states, k, v) ==
    IF v THEN [x \in DOMAIN states \cup {k} |-> TRUE] ELSE states
Insert(states, k, v) ==
    [x \in DOMAIN states \cup {k} |-> IF x = k THEN v ELSE states[x]]

\* The value just_pressed returns.
JustPressedResult(states, s, i) ==
    CurrentFramePressed(s, i) /\ ~WasPressed(states, ShortcutKey(s))

(***************************************************************************)
(* The shortcut matcher, frame by frame.                                   *)
(***************************************************************************)
ShortcutInit ==
    /\ SHORTCUT_STATES = [k \in {} |-> FALSE]
    /\ input \in Inputs
    /\ called = {}
    /\ observed \in Shortcuts
    /\ frame_cond = <<>>
    /\ frame_result = <<>>

ShortcutIdle ==
    /\ SHORTCUT_STATES = [k \in {} |-> FALSE]
    /\ input = [pressed |-> {}, ctrl |-> FALSE, alt |-> FALSE, shift |-> FALSE,
                command |-> FALSE]
    /\ called = {}
    /\ observed = KeyboardShortcut("S", TRUE, FALSE, FALSE, FALSE)
    /\ frame_cond = <<>>
    /\ frame_result = <<>>

\* KeyboardShortcut::just_pressed(&self, ctx), each shortcut once per frame.
JustPressed(s) ==
    /\ s \notin called
    /\ Len(frame_cond) < MaxFrames
    /\ SHORTCUT_STATES' =
           Insert(SHORTCUT_STATES, ShortcutKey(s), CurrentFramePressed(s, input))
    /\ called' = called \cup {s}
    /\ IF s = observed
       THEN /\ frame_cond' = Append(frame_cond, CurrentFramePressed(s, input))
            /\ frame_result' =
                   Append(frame_result, JustPressedResult(SHORTCUT_STATES, s, input))
       ELSE UNCHANGED <<frame_cond, frame_result>>
    /\ UNCHANGED <<input, observed>>
    /\ UNCHANGED <<parseVars, overrideVars, themeVars, restVars>>

\* The host starts the next frame with a new input snapshot; the observed
\* shortcut was checked in the frame that ends.
NextFrame(i) ==
    /\ observed \in called
    /\ Len(frame_cond) < MaxFrames
    /\ input' = i
    /\ called' = {}
    /\ UNCHANGED <<SHORTCUT_STATES, observed, frame_cond, frame_result>>
    /\ UNCHANGED <<parseVars, overrideVars, themeVars, restVars>>

(***************************************************************************)
(* The shortcut parser: from_string and display_string.                    *)
(***************************************************************************)
UpperLetters == <<"A", "B", "C", "D", "E", "F", "G", "H", "I", "J", "K", "L", "M",
                  "N", "O", "P", "Q", "R", "S", "T", "U", "V", "W", "X", "Y", "Z">>
LowerLetters == <<"a", "b", "c", "d", "e", "f", "g", "h", "i", "j", "k", "l", "m",
                  "n", "o", "p", "q", "r", "s", "t", "u", "v", "w", "x", "y", "z">>

\* char::to_lowercase on the letters of the model's alphabet.
LowerChar(c) ==
    IF \E n \in 1..26 : UpperLetters[n] = c
    THEN LowerLetters[CHOOSE n \in 1..26 : UpperLetters[n] = c]
    ELSE c

\* str::to_lowercase
ToLowercaseNoop(tok) == tok
ToLowercase(tok) == [n \in 1..Len(tok) |-> LowerChar(tok[n])]

\* A sequence of characters as one string.
RECURSIVE Str(_)
Str(chars) == IF chars = <<>> THEN "" ELSE Head(chars) \o Str(Tail(chars))

\* shortcut.split('+').collect(): the pieces between the '+' characters; a
\* text without '+' (the empty text too) is one piece.
RECURSIVE SplitFrom(_, _, _)
SplitFrom(rest, piece, done) ==
    IF rest = <<>> THEN Append(done, piece)
    ELSE IF Head(rest) = "+" THEN SplitFrom(Tail(rest), <<>>, Append(done, piece))
    ELSE SplitFrom(Tail(rest), Append(piece, Head(rest)), done)

Split(shortcut) == SplitFrom(shortcut, <<>>, <<>>)

\* The arms of "match modifier.as_str()": token |-> field of Modifiers.
ModifierTable ==
    { <<"ctrl", "ctrl">>, <<"control", "ctrl">>, <<"alt", "alt">>,
      <<"shift", "shift">>, <<"cmd", "command">>, <<"meta", "command">>,
      <<"super", "command">> }

\* The arms of "match key_str.as_str()": token |-> egui::Key.  The grave
\* accent character, which a TLA+ string cannot hold, is written GRAVE.
KeyTable ==
    {
      <<"a", "A">>, <<"b", "B">>, <<"c", "C">>, <<"d", "D">>,
      <<"e", "E">>, <<"f", "F">>, <<"g", "G">>, <<"h", "H">>,
      <<"i", "I">>, <<"j", "J">>, <<"k", "K">>, <<"l", "L">>,
      <<"m", "M">>, <<"n", "N">>, <<"o", "O">>, <<"p", "P">>,
      <<"q", "Q">>, <<"r", "R">>, <<"s", "S">>, <<"t", "T">>,
      <<"u", "U">>, <<"v", "V">>, <<"w", "W">>, <<"x", "X">>,
      <<"y", "Y">>, <<"z", "Z">>, <<"0", "Num0">>, <<"1", "Num1">>,
      <<"2", "Num2">>, <<"3", "Num3">>, <<"4", "Num4">>, <<"5", "Num5">>,
      <<"6", "Num6">>, <<"7", "Num7">>, <<"8", "Num8">>, <<"9", "Num9">>,
      <<"f1", "F1">>, <<"f2", "F2">>, <<"f3", "F3">>, <<"f4", "F4">>,
      <<"f5", "F5">>, <<"f6", "F6">>, <<"f7", "F7">>, <<"f8", "F8">>,
      <<"f9", "F9">>, <<"f10", "F10">>, <<"f11", "F11">>, <<"f12", "F12">>,
      <<"enter", "Enter">>, <<"return", "Enter">>, <<"space", "Space">>, <<"tab", "Tab">>,
      <<"escape", "Escape">>, <<"esc", "Escape">>, <<"backspace", "Backspace">>, <<"delete", "Delete">>,
      <<"del", "Delete">>, <<"home", "Home">>, <<"end", "End">>, <<"pageup", "PageUp">>,
      <<"pgup", "PageUp">>, <<"pagedown", "PageDown">>, <<"pgdown", "PageDown">>, <<"up", "ArrowUp">>,
      <<"down", "ArrowDown">>, <<"left", "ArrowLeft">>, <<"right", "ArrowRight">>, <<"-", "Minus">>,
      <<"minus", "Minus">>, <<"=", "Equals">>, <<"plus", "Equals">>, <<"[", "OpenBracket">>,
      <<"]", "CloseBracket">>, <<";", "Semicolon">>, <<"'", "Quote">>, <<"GRAVE", "Backtick">>,
      <<"\\", "Backslash">>, <<",", "Comma">>, <<".", "Period">>, <<"/", "Slash">> }

\* egui::Key::name
KeyNameTable ==
    {
      <<"A", "A">>, <<"B", "B">>, <<"C", "C">>, <<"D", "D">>,
      <<"E", "E">>, <<"F", "F">>, <<"G", "G">>, <<"H", "H">>,
      <<"I", "I">>, <<"J", "J">>, <<"K", "K">>, <<"L", "L">>,
      <<"M", "M">>, <<"N", "N">>, <<"O", "O">>, <<"P", "P">>,
      <<"Q", "Q">>, <<"R", "R">>, <<"S", "S">>, <<"T", "T">>,
      <<"U", "U">>, <<"V", "V">>, <<"W", "W">>, <<"X", "X">>,
      <<"Y", "Y">>, <<"Z", "Z">>, <<"Num0", "0">>, <<"Num1", "1">>,
      <<"Num2", "2">>, <<"Num3", "3">>, <<"Num4", "4">>, <<"Num5", "5">>,
      <<"Num6", "6">>, <<"Num7", "7">>, <<"Num8", "8">>, <<"Num9", "9">>,
      <<"F1", "F1">>, <<"F2", "F2">>, <<"F3", "F3">>, <<"F4", "F4">>,
      <<"F5", "F5">>, <<"F6", "F6">>, <<"F7", "F7">>, <<"F8", "F8">>,
      <<"F9", "F9">>, <<"F10", "F10">>, <<"F11", "F11">>, <<"F12", "F12">>,
      <<"Enter", "Enter">>, <<"Space", "Space">>, <<"Tab", "Tab">>, <<"Escape", "Escape">>,
      <<"Backspace", "Backspace">>, <<"Delete", "Delete">>, <<"Home", "Home">>, <<"End", "End">>,
      <<"PageUp", "PageUp">>, <<"PageDown", "PageDown">>, <<"ArrowUp", "Up">>, <<"ArrowDown", "Down">>,
      <<"ArrowLeft", "Left">>, <<"ArrowRight", "Right">>, <<"Minus", "Minus">>, <<"Equals", "Equals">>,
      <<"OpenBracket", "OpenBracket">>, <<"CloseBracket", "CloseBracket">>, <<"Semicolon", "Semicolon">>, <<"Quote", "Quote">>,
      <<"Backtick", "Backtick">>, <<"Backslash", "Backslash">>, <<"Comma", "Comma">>, <<"Period", "Period">>,
      <<"Slash", "Slash">> }

KeyName(key) == (CHOOSE p \in KeyNameTable : p[1] = key)[2]

\* The Result of from_string; NotCalled stands for "no call yet".
NotCalled == [kind |-> "NotCalled"]
Ok(v) == [kind |-> "Ok", value |-> v]
Err(e, arg) == [kind |-> "Err", err |-> e, arg |-> arg]

\* The loop over &parts[..parts.len() - 1]: the modifiers set so far, or the
\* first token that is no modifier.
RECURSIVE ParseModifiers(_, _)
ParseModifiers(tokens, modifiers) ==
    IF tokens = <<>> THEN Ok(modifiers)
    ELSE LET modifier == Str(ToLowercase(Head(tokens)))
         IN  IF \E p \in ModifierTable : p[1] = modifier
             THEN LET field == (CHOOSE p \in ModifierTable : p[1] = modifier)[2]
                  IN  ParseModifiers(Tail(tokens), [modifiers EXCEPT ![field] = TRUE])
             ELSE Err("InvalidModifier", Str(Head(tokens)))

\* Modifiers::default()
ModifiersDefault == [ctrl |-> FALSE, alt |-> FALSE, shift |-> FALSE, command |-> FALSE]

\* KeyboardShortcut::from_string
FromString(shortcut) ==
    LET parts == Split(shortcut)
    IN  IF parts = <<>> THEN Err("InvalidFormat", Str(shortcut))
        ELSE LET key_str == Str(ToLowercase(parts[Len(parts)]))
                 mods    == ParseModifiers(SubSeq(parts, 1, Len(parts) - 1),
                                           ModifiersDefault)
             IN  IF mods.kind = "Err" THEN mods
                 ELSE IF \E p \in KeyTable : p[1] = key_str
                 THEN LET key == (CHOOSE p \in KeyTable : p[1] = key_str)[2]
                          m   == mods.value
                      IN  Ok(KeyboardShortcut(key, m.ctrl, m.alt, m.shift, m.command))
                 ELSE Err("InvalidKey", key_str)

\* KeyboardShortcut::display_string
DisplayStringShiftFirst(s) ==
    (IF s.ctrl THEN "Ctrl+" ELSE "") \o (IF s.shift THEN "Shift+" ELSE "")
        \o (IF s.alt THEN "Alt+" ELSE "") \o (IF s.command THEN "Cmd+" ELSE "")
        \o KeyName(s.key)
DisplayString(s) ==
    (IF s.ctrl THEN "Ctrl+" ELSE "") \o (IF s.alt THEN "Alt+" ELSE "")
        \o (IF s.shift THEN "Shift+" ELSE "") \o (IF s.command THEN "Cmd+" ELSE "")
        \o KeyName(s.key)

(***************************************************************************)
(* The texts given to from_string: up to MaxMods tokens and a last token,  *)
(* joined by '+'.  Each token of the pool is listed with what the format   *)
(* of shortcut texts says it stands for: a field of Modifiers (any         *)
(* spelling or letter case of an alias), a key, or nothing (None).         *)
(***************************************************************************)
ModifierTokens ==
    {
      [chars |-> <<"c", "t", "r", "l">>, field |-> "ctrl"],
      [chars |-> <<"C", "o", "n", "t", "r", "o", "l">>, field |-> "ctrl"],
      [chars |-> <<"a", "l", "t">>, field |-> "alt"],
      [chars |-> <<"S", "H", "I", "F", "T">>, field |-> "shift"],
      [chars |-> <<"s", "h", "i", "f", "t">>, field |-> "shift"],
      [chars |-> <<"c", "m", "d">>, field |-> "command"],
      [chars |-> <<"M", "e", "t", "a">>, field |-> "command"],
      [chars |-> <<"s", "u", "p", "e", "r">>, field |-> "command"],
      [chars |-> <<"h", "y", "p", "e", "r">>, field |-> None],
      [chars |-> <<>>, field |-> None] }

KeyTokens ==
    {
      [chars |-> <<"p">>, key |-> "P"],
      [chars |-> <<"P">>, key |-> "P"],
      [chars |-> <<"f", "4">>, key |-> "F4"],
      [chars |-> <<"E", "s", "c">>, key |-> "Escape"],
      [chars |-> <<"=">>, key |-> "Equals"],
      [chars |-> <<"d", "o", "w", "n">>, key |-> "ArrowDown"],
      [chars |-> <<"f", "o", "o", "b", "a", "r">>, key |-> None],
      [chars |-> <<>>, key |-> None],
      [chars |-> <<"c", "t", "r", "l">>, key |-> None] }

SeqsUpTo(S, n) == UNION { [1..m -> S] : m \in 0..n }

RECURSIVE JoinTokens(_, _)
JoinTokens(mods, key) ==
    IF mods = <<>> THEN key.chars
    ELSE Head(mods).chars \o <<"+">> \o JoinTokens(Tail(mods), key)

ParseInit ==
    /\ \E mods \in SeqsUpTo(ModifierTokens, MaxMods), key \in KeyTokens :
          /\ built_from = [mods |-> mods, key |-> key]
          /\ text = JoinTokens(mods, key)
    /\ parsed = NotCalled
    /\ shown = None

ParseIdle ==
    /\ text = <<>>
    /\ built_from = None
    /\ parsed = NotCalled
    /\ shown = None

\* A call of KeyboardShortcut::from_string(text).
CallFromString ==
    /\ parsed = NotCalled
    /\ parsed' = FromString(text)
    /\ UNCHANGED <<text, built_from, shown>>
    /\ UNCHANGED <<shortcutVars, overrideVars, themeVars, restVars>>

\* A call of display_string on the shortcut from_string returned.
CallDisplayString ==
    /\ parsed.kind = "Ok"
    /\ shown = None
    /\ shown' = DisplayString(parsed.value)
    /\ UNCHANGED <<text, built_from, parsed>>
    /\ UNCHANGED <<shortcutVars, overrideVars, themeVars, restVars>>

(***************************************************************************)
(* TitleBarTheme (theme/mod.rs).                                           *)
(***************************************************************************)
\* Option<T>
NoneOpt == [some |-> FALSE]
Some(v) == [some |-> TRUE, v |-> v]
UnwrapOr(o, d) == IF o.some THEN o.v ELSE d

\* The fields of struct TitleBarTheme.
ThemeFields ==
    { "background_color", "hover_color", "close_hover_color",
      "close_icon_color", "maximize_icon_color", "restore_icon_color",
      "minimize_icon_color", "title_color", "menu_text_color",
      "menu_text_size", "menu_hover_color", "keyboard_selection_color",
      "submenu_background_color", "submenu_text_color",
      "submenu_text_size", "submenu_hover_color", "submenu_disabled_color",
      "submenu_shortcut_color", "submenu_border_color",
      "submenu_keyboard_selection_color" }

\* TitleBarTheme::light()
Light ==
    [ background_color |-> <<255, 255, 255>>,
      hover_color |-> <<230, 230, 230>>,
      close_hover_color |-> <<232, 17, 35>>,
      close_icon_color |-> <<100, 100, 100>>,
      maximize_icon_color |-> <<100, 100, 100>>,
      restore_icon_color |-> <<100, 100, 100>>,
      minimize_icon_color |-> <<100, 100, 100>>,
      title_color |-> <<50, 50, 50>>,
      menu_text_color |-> <<50, 50, 50>>,
      menu_text_size |-> 12,
      menu_hover_color |-> <<230, 230, 230>>,
      keyboard_selection_color |-> <<0, 120, 215>>,
      submenu_background_color |-> <<255, 255, 255>>,
      submenu_text_color |-> <<50, 50, 50>>,
      submenu_text_size |-> 11,
      submenu_hover_color |-> <<240, 240, 240>>,
      submenu_disabled_color |-> <<150, 150, 150>>,
      submenu_shortcut_color |-> <<100, 100, 100>>,
      submenu_border_color |-> <<200, 200, 200>>,
      submenu_keyboard_selection_color |-> <<0, 120, 215>> ]

\* TitleBarTheme::dark()
Dark ==
    [ background_color |-> <<30, 30, 30>>,
      hover_color |-> <<60, 60, 60>>,
      close_hover_color |-> <<232, 17, 35>>,
      close_icon_color |-> <<200, 200, 200>>,
      maximize_icon_color |-> <<200, 200, 200>>,
      restore_icon_color |-> <<200, 200, 200>>,
      minimize_icon_color |-> <<200, 200, 200>>,
      title_color |-> <<200, 200, 200>>,
      menu_text_color |-> <<200, 200, 200>>,
      menu_text_size |-> 12,
      menu_hover_color |-> <<60, 60, 60>>,
      keyboard_selection_color |-> <<30, 144, 255>>,
      submenu_background_color |-> <<40, 40, 40>>,
      submenu_text_color |-> <<200, 200, 200>>,
      submenu_text_size |-> 11,
      submenu_hover_color |-> <<70, 70, 70>>,
      submenu_disabled_color |-> <<120, 120, 120>>,
      submenu_shortcut_color |-> <<160, 160, 160>>,
      submenu_border_color |-> <<80, 80, 80>>,
      submenu_keyboard_selection_color |-> <<30, 144, 255>> ]

\* The parameters of light_with_overrides and dark_with_overrides, in the
\* order of the signature.
OverrideParams ==
    << "background_color", "hover_color", "close_hover_color",
       "close_icon_color", "maximize_icon_color", "restore_icon_color",
       "minimize_icon_color", "title_color", "menu_text_color",
       "menu_text_size", "menu_hover_color", "keyboard_selection_color",
       "submenu_background_color", "submenu_text_color",
       "submenu_hover_color", "submenu_shortcut_color",
       "submenu_keyboard_selection_color" >>

\* TitleBarTheme::light_with_overrides; `a` holds the arguments in order.
LightWithOverridesSlip(a) ==
    LET default == Light
        background_color == a[1]
        hover_color == a[2]
        close_hover_color == a[3]
        close_icon_color == a[4]
        maximize_icon_color == a[5]
        restore_icon_color == a[6]
        minimize_icon_color == a[7]
        title_color == a[8]
        menu_text_color == a[9]
        menu_text_size == a[10]
        menu_hover_color == a[11]
        keyboard_selection_color == a[12]
        submenu_background_color == a[13]
        submenu_text_color == a[14]
        submenu_hover_color == a[15]
        submenu_shortcut_color == a[16]
        submenu_keyboard_selection_color == a[17]
    IN  [ background_color |-> UnwrapOr(background_color, default.background_color),
          hover_color |-> UnwrapOr(close_hover_color, default.hover_color),
          close_hover_color |-> UnwrapOr(close_hover_color, default.close_hover_color),
          close_icon_color |-> UnwrapOr(close_icon_color, default.close_icon_color),
          maximize_icon_color |-> UnwrapOr(maximize_icon_color, default.maximize_icon_color),
          restore_icon_color |-> UnwrapOr(restore_icon_color, default.restore_icon_color),
          minimize_icon_color |-> UnwrapOr(minimize_icon_color, default.minimize_icon_color),
          title_color |-> UnwrapOr(title_color, default.title_color),
          menu_text_color |-> UnwrapOr(menu_text_color, default.menu_text_color),
          menu_text_size |-> UnwrapOr(menu_text_size, default.menu_text_size),
          menu_hover_color |-> UnwrapOr(menu_hover_color, default.menu_hover_color),
          keyboard_selection_color |-> UnwrapOr(keyboard_selection_color, default.keyboard_selection_color),
          submenu_background_color |-> UnwrapOr(submenu_background_color, default.submenu_background_color),
          submenu_text_color |-> UnwrapOr(submenu_text_color, default.submenu_text_color),
          submenu_text_size |-> default.submenu_text_size,
          submenu_hover_color |-> UnwrapOr(submenu_hover_color, default.submenu_hover_color),
          submenu_disabled_color |-> default.submenu_disabled_color,
          submenu_shortcut_color |-> UnwrapOr(submenu_shortcut_color, default.submenu_shortcut_color),
          submenu_border_color |-> default.submenu_border_color,
          submenu_keyboard_selection_color |-> UnwrapOr(submenu_keyboard_selection_color, default.submenu_keyboard_selection_color) ]
LightWithOverrides(a) ==
    LET default == Light
        background_color == a[1]
        hover_color == a[2]
        close_hover_color == a[3]
        close_icon_color == a[4]
        maximize_icon_color == a[5]
        restore_icon_color == a[6]
        minimize_icon_color == a[7]
        title_color == a[8]
        menu_text_color == a[9]
        menu_text_size == a[10]
        menu_hover_color == a[11]
        keyboard_selection_color == a[12]
        submenu_background_color == a[13]
        submenu_text_color == a[14]
        submenu_hover_color == a[15]
        submenu_shortcut_color == a[16]
        submenu_keyboard_selection_color == a[17]
    IN  [ background_color |-> UnwrapOr(background_color, default.background_color),
          hover_color |-> UnwrapOr(hover_color, default.hover_color),
          close_hover_color |-> UnwrapOr(close_hover_color, default.close_hover_color),
          close_icon_color |-> UnwrapOr(close_icon_color, default.close_icon_color),
          maximize_icon_color |-> UnwrapOr(maximize_icon_color, default.maximize_icon_color),
          restore_icon_color |-> UnwrapOr(restore_icon_color, default.restore_icon_color),
          minimize_icon_color |-> UnwrapOr(minimize_icon_color, default.minimize_icon_color),
          title_color |-> UnwrapOr(title_color, default.title_color),
          menu_text_color |-> UnwrapOr(menu_text_color, default.menu_text_color),
          menu_text_size |-> UnwrapOr(menu_text_size, default.menu_text_size),
          menu_hover_color |-> UnwrapOr(menu_hover_color, default.menu_hover_color),
          keyboard_selection_color |-> UnwrapOr(keyboard_selection_color, default.keyboard_selection_color),
          submenu_background_color |-> UnwrapOr(submenu_background_color, default.submenu_background_color),
          submenu_text_color |-> UnwrapOr(submenu_text_color, default.submenu_text_color),
          submenu_text_size |-> default.submenu_text_size,
          submenu_hover_color |-> UnwrapOr(submenu_hover_color, default.submenu_hover_color),
          submenu_disabled_color |-> default.submenu_disabled_color,
          submenu_shortcut_color |-> UnwrapOr(submenu_shortcut_color, default.submenu_shortcut_color),
          submenu_border_color |-> default.submenu_border_color,
          submenu_keyboard_selection_color |-> UnwrapOr(submenu_keyboard_selection_color, default.submenu_keyboard_selection_color) ]
\* TitleBarTheme::dark_with_overrides
DarkWithOverrides(a) ==
    LET default == Dark
        background_color == a[1]
        hover_color == a[2]
        close_hover_color == a[3]
        close_icon_color == a[4]
        maximize_icon_color == a[5]
        restore_icon_color == a[6]
        minimize_icon_color == a[7]
        title_color == a[8]
        menu_text_color == a[9]
        menu_text_size == a[10]
        menu_hover_color == a[11]
        keyboard_selection_color == a[12]
        submenu_background_color == a[13]
        submenu_text_color == a[14]
        submenu_hover_color == a[15]
        submenu_shortcut_color == a[16]
        submenu_keyboard_selection_color == a[17]
    IN  [ background_color |-> UnwrapOr(background_color, default.background_color),
          hover_color |-> UnwrapOr(hover_color, default.hover_color),
          close_hover_color |-> UnwrapOr(close_hover_color, default.close_hover_color),
          close_icon_color |-> UnwrapOr(close_icon_color, default.close_icon_color),
          maximize_icon_color |-> UnwrapOr(maximize_icon_color, default.maximize_icon_color),
          restore_icon_color |-> UnwrapOr(restore_icon_color, default.restore_icon_color),
          minimize_icon_color |-> UnwrapOr(minimize_icon_color, default.minimize_icon_color),
          title_color |-> UnwrapOr(title_color, default.title_color),
          menu_text_color |-> UnwrapOr(menu_text_color, default.menu_text_color),
          menu_text_size |-> UnwrapOr(menu_text_size, default.menu_text_size),
          menu_hover_color |-> UnwrapOr(menu_hover_color, default.menu_hover_color),
          keyboard_selection_color |-> UnwrapOr(keyboard_selection_color, default.keyboard_selection_color),
          submenu_background_color |-> UnwrapOr(submenu_background_color, default.submenu_background_color),
          submenu_text_color |-> UnwrapOr(submenu_text_color, default.submenu_text_color),
          submenu_text_size |-> default.submenu_text_size,
          submenu_hover_color |-> UnwrapOr(submenu_hover_color, default.submenu_hover_color),
          submenu_disabled_color |-> default.submenu_disabled_color,
          submenu_shortcut_color |-> UnwrapOr(submenu_shortcut_color, default.submenu_shortcut_color),
          submenu_border_color |-> default.submenu_border_color,
          submenu_keyboard_selection_color |-> UnwrapOr(submenu_keyboard_selection_color, default.submenu_keyboard_selection_color) ]

(***************************************************************************)
(* Calls of light_with_overrides and dark_with_overrides.                  *)
(***************************************************************************)
\* Values given as overrides: two colors that no built-in theme uses, and
\* two sizes.
OverrideColors == << <<45, 45, 65>>, <<220, 20, 40>> >>
OverrideSizes  == << 14, 16 >>

\* The c-th value of the type of parameter n (Option<f32> for
\* menu_text_size, Option<Color32> for the others).
OverrideValue(n, c) ==
    IF OverrideParams[n] = "menu_text_size" THEN OverrideSizes[c] ELSE OverrideColors[c]

RECURSIVE SubsetsUpTo(_, _)
SubsetsUpTo(S, n) ==
    IF n = 0 THEN {{}}
    ELSE LET smaller == SubsetsUpTo(S, n - 1)
         IN  smaller \cup { Q \cup {x} : Q \in smaller, x \in S }

\* The argument lists with at most n arguments that are Some.
OverrideArgs(n) ==
    UNION { { [k \in 1..Len(OverrideParams) |->
                  IF k \in given THEN Some(OverrideValue(k, pick[k])) ELSE NoneOpt] :
              pick \in [given -> 1..Len(OverrideColors)] } :
            given \in SubsetsUpTo(1..Len(OverrideParams), n) }

OverrideInputs == OverrideArgs(MaxOverrides)

\* The built-in theme a *_with_overrides function starts from.
BuiltIn(base) == IF base = "light" THEN Light ELSE Dark

WithOverrides(base, a) ==
    IF base = "light" THEN LightWithOverrides(a) ELSE DarkWithOverrides(a)

OverrideInit ==
    /\ ov_base \in {"light", "dark"}
    /\ ov_args \in OverrideInputs
    /\ ov_result = NotCalled

OverrideIdle ==
    /\ ov_base = "light"
    /\ ov_args = [k \in 1..Len(OverrideParams) |-> NoneOpt]
    /\ ov_result = NotCalled

\* A call of TitleBarTheme::light_with_overrides(ov_args).
CallLightWithOverrides ==
    /\ ov_base = "light"
    /\ ov_result = NotCalled
    /\ ov_result' = Ok(LightWithOverrides(ov_args))
    /\ UNCHANGED <<ov_base, ov_args>>
    /\ UNCHANGED <<shortcutVars, parseVars, themeVars, restVars>>

\* A call of TitleBarTheme::dark_with_overrides(ov_args).
CallDarkWithOverrides ==
    /\ ov_base = "dark"
    /\ ov_result = NotCalled
    /\ ov_result' = Ok(DarkWithOverrides(ov_args))
    /\ UNCHANGED <<ov_base, ov_args>>
    /\ UNCHANGED <<shortcutVars, parseVars, themeVars, restVars>>

(***************************************************************************)
(* detect_system_dark_mode (theme/mod.rs).                                 *)
(***************************************************************************)
Platforms == {"windows", "macos", "linux", "other"}

\* haystack.contains(needle)
Contains(haystack, needle) ==
    \E n \in 1..(Len(haystack) - Len(needle) + 1) :
        SubSeq(haystack, n, n + Len(needle) - 1) = needle

\* What the command of the query can print on stdout: nothing (the value or
\* key is absent, the command exits with an error), or the setting.
QueryOutputs ==
    { <<>>,
      <<"D", "W", "O", "R", "D", " ", "0", "x", "1">>,
      <<"D", "W", "O", "R", "D", " ", "0", "x", "0">>,
      <<"D", "a", "r", "k">>,
      <<"'", "Y", "a", "r", "u", "-", "d", "a", "r", "k", "'">>,
      <<"'", "Y", "a", "r", "u", "'">> }

\* std::env::var("GTK_THEME")
EnvUnset == [set |-> FALSE, v |-> <<>>]
EnvValues ==
    { EnvUnset,
      [set |-> TRUE, v |-> <<"Y", "a", "r", "u", ":", "d", "a", "r", "k">>] }

\* One run of the query: whether Command::output started the command, what
\* it printed, and the GTK_THEME variable.
NoQuery == [made |-> FALSE, started |-> FALSE, stdout |-> <<>>, gtk_theme |-> EnvUnset]
QueryOutcomes ==
    { [made |-> TRUE, started |-> FALSE, stdout |-> <<>>, gtk_theme |-> e] :
        e \in EnvValues }
    \cup { [made |-> TRUE, started |-> TRUE, stdout |-> o, gtk_theme |-> EnvUnset] :
             o \in QueryOutputs }

\* The #[cfg(target_os = "windows")] block.
DetectWindows(q) ==
    IF q.started THEN ~Contains(q.stdout, <<"0", "x", "1">>) ELSE FALSE

\* The #[cfg(target_os = "macos")] block.
DetectMacos(q) ==
    IF q.started THEN Contains(q.stdout, <<"D", "a", "r", "k">>) ELSE FALSE

\* The #[cfg(target_os = "linux")] block.
DetectLinux(q) ==
    IF q.started
    THEN Contains(q.stdout, <<"d", "a", "r", "k">>)
             \/ Contains(q.stdout, <<"D", "a", "r", "k">>)
    ELSE IF q.gtk_theme.set
         THEN Contains(q.gtk_theme.v, <<"d", "a", "r", "k">>)
                  \/ Contains(q.gtk_theme.v, <<"D", "a", "r", "k">>)
         ELSE FALSE

\* detect_system_dark_mode()
DetectSystemDarkMode(os, q) ==
    CASE os = "windows" -> DetectWindows(q)
      [] os = "macos"   -> DetectMacos(q)
      [] os = "linux"   -> DetectLinux(q)
      [] OTHER          -> FALSE

(***************************************************************************)
(* The title bar and its theme API (titlebar/main.rs, theme/api.rs).       *)
(***************************************************************************)
ThemeModes == {"Light", "Dark", "System"}

\* The theme providers an application attaches, and the ids it asks for.
NoProvider == "none"
Providers == {"app"}
ThemeIds == {"ocean", "forest", "ghost"}

\* The fields of TitleBarTheme in the order of the struct.
FieldOrder ==
    << "background_color", "hover_color", "close_hover_color",
       "close_icon_color", "maximize_icon_color", "restore_icon_color",
       "minimize_icon_color", "title_color", "menu_text_color",
       "menu_text_size", "menu_hover_color", "keyboard_selection_color",
       "submenu_background_color", "submenu_text_color",
       "submenu_text_size", "submenu_hover_color", "submenu_disabled_color",
       "submenu_shortcut_color", "submenu_border_color",
       "submenu_keyboard_selection_color" >>

FieldIndex(f) == CHOOSE n \in 1..Len(FieldOrder) : FieldOrder[n] = f

\* A theme of the provider: every field has a value of its own, which no
\* built-in theme has.
CustomTheme(shade) ==
    [f \in ThemeFields |->
        IF f \in {"menu_text_size", "submenu_text_size"} THEN 20 + FieldIndex(f)
        ELSE <<shade, FieldIndex(f), 99>>]

\* ThemeProvider::get_title_bar_theme of the attached provider.
GetTitleBarTheme(provider, theme_id, mode) ==
    CASE provider = "app" /\ theme_id = "ocean" ->
             Some(CustomTheme(IF mode = "Dark" THEN 10 ELSE 210))
      [] provider = "app" /\ theme_id = "forest" -> Some(CustomTheme(120))
      [] OTHER -> NoneOpt

\* ThemeProvider::get_egui_visuals of the attached provider.
GetEguiVisuals(provider, theme_id, mode) ==
    CASE provider = "app" /\ theme_id = "ocean" ->
             Some(IF mode = "Dark" THEN "ocean_dark" ELSE "ocean_light")
      [] provider = "app" /\ theme_id = "ghost" -> Some("ghost")
      [] OTHER -> NoneOpt

\* The theme of a mode: the match in TitleBar::new and apply_theme_mode.
ModeTheme(mode, system_dark) ==
    CASE mode = "Light" -> Light
      [] mode = "Dark"  -> Dark
      [] OTHER          -> IF system_dark THEN Dark ELSE Light

\* TitleBarOptions with a theme mode, a background color and a menu text size.
Options(mode, bg, size) ==
    [ theme_mode |-> mode,
      background_color |-> bg,
      hover_color |-> NoneOpt,
      close_hover_color |-> NoneOpt,
      close_icon_color |-> NoneOpt,
      maximize_icon_color |-> NoneOpt,
      restore_icon_color |-> NoneOpt,
      minimize_icon_color |-> NoneOpt,
      title_color |-> NoneOpt,
      menu_text_color |-> NoneOpt,
      menu_text_size |-> size,
      menu_hover_color |-> NoneOpt,
      keyboard_selection_color |-> NoneOpt ]

OptionsInputs ==
    { Options(mode, bg, size) :
        mode \in ThemeModes, bg \in {NoneOpt, Some(OverrideColors[1])},
        size \in {NoneOpt, Some(OverrideSizes[1])} }

\* TitleBar::new(options)
New(options, system_dark) ==
    LET theme == ModeTheme(options.theme_mode, system_dark)
    IN  [ background_color |-> UnwrapOr(options.background_color, theme.background_color),
          hover_color |-> UnwrapOr(options.hover_color, theme.hover_color),
          close_hover_color |-> UnwrapOr(options.close_hover_color, theme.close_hover_color),
          close_icon_color |-> UnwrapOr(options.close_icon_color, theme.close_icon_color),
          maximize_icon_color |-> UnwrapOr(options.maximize_icon_color, theme.maximize_icon_color),
          restore_icon_color |-> UnwrapOr(options.restore_icon_color, theme.restore_icon_color),
          minimize_icon_color |-> UnwrapOr(options.minimize_icon_color, theme.minimize_icon_color),
          title_color |-> UnwrapOr(options.title_color, theme.title_color),
          menu_text_color |-> UnwrapOr(options.menu_text_color, theme.menu_text_color),
          menu_text_size |-> UnwrapOr(options.menu_text_size, theme.menu_text_size),
          menu_hover_color |-> UnwrapOr(options.menu_hover_color, theme.menu_hover_color),
          keyboard_selection_color |-> UnwrapOr(options.keyboard_selection_color, theme.keyboard_selection_color),
          submenu_background_color |-> theme.submenu_background_color,
          submenu_text_color |-> theme.submenu_text_color,
          submenu_text_size |-> theme.submenu_text_size,
          submenu_hover_color |-> theme.submenu_hover_color,
          submenu_disabled_color |-> theme.submenu_disabled_color,
          submenu_shortcut_color |-> theme.submenu_shortcut_color,
          submenu_border_color |-> theme.submenu_border_color,
          submenu_keyboard_selection_color |-> theme.submenu_keyboard_selection_color,
          theme_mode |-> options.theme_mode,
          theme_provider |-> NoProvider,
          current_theme_id |-> NoneOpt ]

\* TitleBar::apply_theme(theme)
ApplyTheme(bar, theme) ==
    [bar EXCEPT !.background_color = theme.background_color,
              !.hover_color = theme.hover_color,
              !.close_hover_color = theme.close_hover_color,
              !.close_icon_color = theme.close_icon_color,
              !.maximize_icon_color = theme.maximize_icon_color,
              !.restore_icon_color = theme.restore_icon_color,
              !.minimize_icon_color = theme.minimize_icon_color,
              !.title_color = theme.title_color,
              !.menu_text_color = theme.menu_text_color,
              !.menu_text_size = theme.menu_text_size,
              !.menu_hover_color = theme.menu_hover_color,
              !.keyboard_selection_color = theme.keyboard_selection_color,
              !.submenu_background_color = theme.submenu_background_color,
              !.submenu_text_color = theme.submenu_text_color,
              !.submenu_text_size = theme.submenu_text_size,
              !.submenu_hover_color = theme.submenu_hover_color,
              !.submenu_disabled_color = theme.submenu_disabled_color,
              !.submenu_shortcut_color = theme.submenu_shortcut_color,
              !.submenu_border_color = theme.submenu_border_color,
              !.submenu_keyboard_selection_color = theme.submenu_keyboard_selection_color]

\* TitleBar::apply_theme_mode(): the fields it assigns, from the theme of
\* self.theme_mode.
ApplyThemeModeNoSubmenu(bar, system_dark) ==
    LET theme == ModeTheme(bar.theme_mode, system_dark)
    IN  [bar EXCEPT !.background_color = theme.background_color,
                  !.hover_color = theme.hover_color,
                  !.close_hover_color = theme.close_hover_color,
                  !.close_icon_color = theme.close_icon_color,
                  !.maximize_icon_color = theme.maximize_icon_color,
                  !.restore_icon_color = theme.restore_icon_color,
                  !.minimize_icon_color = theme.minimize_icon_color,
                  !.title_color = theme.title_color,
                  !.menu_text_color = theme.menu_text_color,
                  !.menu_text_size = theme.menu_text_size,
                  !.menu_hover_color = theme.menu_hover_color,
                  !.keyboard_selection_color = theme.keyboard_selection_color]
ApplyThemeMode(bar, system_dark) ==
    LET theme == ModeTheme(bar.theme_mode, system_dark)
    IN  [bar EXCEPT !.background_color = theme.background_color,
                  !.hover_color = theme.hover_color,
                  !.close_hover_color = theme.close_hover_color,
                  !.close_icon_color = theme.close_icon_color,
                  !.maximize_icon_color = theme.maximize_icon_color,
                  !.restore_icon_color = theme.restore_icon_color,
                  !.minimize_icon_color = theme.minimize_icon_color,
                  !.title_color = theme.title_color,
                  !.menu_text_color = theme.menu_text_color,
                  !.menu_text_size = theme.menu_text_size,
                  !.menu_hover_color = theme.menu_hover_color,
                  !.keyboard_selection_color = theme.keyboard_selection_color,
                  !.submenu_background_color = theme.submenu_background_color,
                  !.submenu_text_color = theme.submenu_text_color,
                  !.submenu_text_size = theme.submenu_text_size,
                  !.submenu_hover_color = theme.submenu_hover_color,
                  !.submenu_disabled_color = theme.submenu_disabled_color,
                  !.submenu_shortcut_color = theme.submenu_shortcut_color,
                  !.submenu_border_color = theme.submenu_border_color,
                  !.submenu_keyboard_selection_color = theme.submenu_keyboard_selection_color]

\* TitleBar::with_theme(theme): the fields it assigns.
WithTheme(bar, theme) ==
    [bar EXCEPT !.background_color = theme.background_color,
              !.hover_color = theme.hover_color,
              !.close_hover_color = theme.close_hover_color,
              !.close_icon_color = theme.close_icon_color,
              !.maximize_icon_color = theme.maximize_icon_color,
              !.restore_icon_color = theme.restore_icon_color,
              !.minimize_icon_color = theme.minimize_icon_color,
              !.title_color = theme.title_color,
              !.menu_text_color = theme.menu_text_color,
              !.menu_text_size = theme.menu_text_size,
              !.menu_hover_color = theme.menu_hover_color]

\* The theme fields of a title bar, as a TitleBarTheme.
ThemeOf(bar) == [f \in ThemeFields |-> bar[f]]

\* The queries a call can make: one when the mode is System, none otherwise.
QueriesFor(mode) == IF mode = "System" THEN QueryOutcomes ELSE {NoQuery}

\* The title bar as the application builds it: TitleBar::new(options), alone
\* or followed by with_theme_provider.
ThemeInit ==
    /\ platform \in Platforms
    /\ \E options \in OptionsInputs : \E q \in QueriesFor(options.theme_mode) :
       \E provider \in {NoProvider} \cup Providers :
          /\ tb = [New(options, DetectSystemDarkMode(platform, q))
                      EXCEPT !.theme_provider = provider]
          /\ last_arg = options
          /\ last_query = q
    /\ ctx_visuals = "default"
    /\ ops = 0
    /\ last_op = "new"
    /\ last_result = "unit"

ThemeIdle ==
    /\ platform = "other"
    /\ tb = New(Options("Light", NoneOpt, NoneOpt), FALSE)
    /\ last_arg = Options("Light", NoneOpt, NoneOpt)
    /\ last_query = NoQuery
    /\ ctx_visuals = "default"
    /\ ops = 0
    /\ last_op = "new"
    /\ last_result = "unit"

\* TitleBar::with_theme_provider(provider)
WithThemeProvider(provider) ==
    /\ ops < MaxOps
    /\ tb' = [tb EXCEPT !.theme_provider = provider]
    /\ ops' = ops + 1
    /\ last_op' = "with_theme_provider"
    /\ last_arg' = provider
    /\ last_result' = "unit"
    /\ last_query' = NoQuery
    /\ UNCHANGED <<ctx_visuals, platform>>
    /\ UNCHANGED <<shortcutVars, parseVars, overrideVars, restVars>>

\* The title bar after switch_theme: the theme applied and the id recorded
\* when the provider has a title-bar theme, untouched otherwise.
SwitchThemeBar(bar, theme_id, tb_theme_opt) ==
    IF tb_theme_opt.some
    THEN [ApplyTheme(bar, tb_theme_opt.v) EXCEPT !.current_theme_id = Some(theme_id)]
    ELSE bar

\* The context's visuals after switch_theme.
SwitchThemeVisualsFirst(visuals, tb_theme_opt, visuals_opt) ==
    IF visuals_opt.some THEN visuals_opt.v ELSE visuals
SwitchThemeVisuals(visuals, tb_theme_opt, visuals_opt) ==
    IF tb_theme_opt.some /\ visuals_opt.some THEN visuals_opt.v ELSE visuals

\* TitleBar::switch_theme(ctx, theme_id)
SwitchTheme(theme_id) ==
    LET mode == tb.theme_mode
        tb_theme_opt == IF tb.theme_provider # NoProvider
                        THEN GetTitleBarTheme(tb.theme_provider, theme_id, mode)
                        ELSE NoneOpt
        visuals_opt  == IF tb.theme_provider # NoProvider
                        THEN GetEguiVisuals(tb.theme_provider, theme_id, mode)
                        ELSE NoneOpt
    IN  /\ ops < MaxOps
        /\ tb' = SwitchThemeBar(tb, theme_id, tb_theme_opt)
        /\ ctx_visuals' = SwitchThemeVisuals(ctx_visuals, tb_theme_opt, visuals_opt)
        /\ last_result' = IF tb_theme_opt.some THEN "Ok" ELSE "ThemeNotFound"
        /\ ops' = ops + 1
        /\ last_op' = "switch_theme"
        /\ last_arg' = theme_id
        /\ last_query' = NoQuery
        /\ UNCHANGED platform
        /\ UNCHANGED <<shortcutVars, parseVars, overrideVars, restVars>>

\* TitleBar::with_theme_mode(mode)
WithThemeMode(mode, q) ==
    /\ ops < MaxOps
    /\ q \in QueriesFor(mode)
    /\ tb' = ApplyThemeMode([tb EXCEPT !.theme_mode = mode],
                            DetectSystemDarkMode(platform, q))
    /\ ops' = ops + 1
    /\ last_op' = "with_theme_mode"
    /\ last_arg' = mode
    /\ last_result' = "unit"
    /\ last_query' = q
    /\ UNCHANGED <<ctx_visuals, platform>>
    /\ UNCHANGED <<shortcutVars, parseVars, overrideVars, restVars>>

\* TitleBar::update_theme_mode(theme_mode)
UpdateThemeMode(mode, q) ==
    /\ ops < MaxOps
    /\ q \in QueriesFor(mode)
    /\ tb' = ApplyThemeMode([tb EXCEPT !.theme_mode = mode],
                            DetectSystemDarkMode(platform, q))
    /\ ops' = ops + 1
    /\ last_op' = "update_theme_mode"
    /\ last_arg' = mode
    /\ last_result' = "unit"
    /\ last_query' = q
    /\ UNCHANGED <<ctx_visuals, platform>>
    /\ UNCHANGED <<shortcutVars, parseVars, overrideVars, restVars>>

\* The themes given to with_theme.
ThemeInputs == {Light, Dark, CustomTheme(120)}

\* TitleBar::with_theme(theme)
CallWithTheme(theme) ==
    /\ ops < MaxOps
    /\ tb' = WithTheme(tb, theme)
    /\ ops' = ops + 1
    /\ last_op' = "with_theme"
    /\ last_arg' = theme
    /\ last_result' = "unit"
    /\ last_query' = NoQuery
    /\ UNCHANGED <<ctx_visuals, platform>>
    /\ UNCHANGED <<shortcutVars, parseVars, overrideVars, restVars>>

\* The override tuples given to with_custom_light_theme,
\* with_custom_dark_theme, update_custom_light_theme and
\* update_custom_dark_theme: at most one element is Some.
TupleInputs ==
    { a \in OverrideArgs(1) :
        \A k \in 1..Len(OverrideParams) : a[k].some => a[k].v = OverrideValue(k, 1) }

\* TitleBar::with_custom_light_theme(overrides)
WithCustomLightTheme(overrides) ==
    LET theme == LightWithOverrides(overrides)
    IN  /\ ops < MaxOps
        /\ tb' = WithTheme(tb, theme)
        /\ ops' = ops + 1
        /\ last_op' = "with_custom_light_theme"
        /\ last_arg' = theme
        /\ last_result' = "unit"
        /\ last_query' = NoQuery
        /\ UNCHANGED <<ctx_visuals, platform>>
        /\ UNCHANGED <<shortcutVars, parseVars, overrideVars, restVars>>

\* TitleBar::with_custom_dark_theme(overrides)
WithCustomDarkTheme(overrides) ==
    LET theme == DarkWithOverrides(overrides)
    IN  /\ ops < MaxOps
        /\ tb' = WithTheme(tb, theme)
        /\ ops' = ops + 1
        /\ last_op' = "with_custom_dark_theme"
        /\ last_arg' = theme
        /\ last_result' = "unit"
        /\ last_query' = NoQuery
        /\ UNCHANGED <<ctx_visuals, platform>>
        /\ UNCHANGED <<shortcutVars, parseVars, overrideVars, restVars>>

\* The override tuple of update_custom_light_theme, update_custom_dark_theme,
\* with_custom_light_theme and with_custom_dark_theme: the field that the
\* comment on each element of the tuple type names, elements 0 to 16.
TupleDoc ==
    << "background_color", "hover_color", "close_hover_color",
       "close_icon_color", "maximize_icon_color", "restore_icon_color",
       "minimize_icon_color", "title_color", "menu_text_color",
       "menu_text_size", "menu_hover_color", "submenu_background_color",
       "submenu_text_color", "submenu_hover_color", "submenu_shortcut_color",
       "keyboard_selection_color", "submenu_keyboard_selection_color" >>

\* TitleBar::update_custom_light_theme(overrides): overrides.0 .. overrides.16
\* are passed to light_with_overrides in this order.
UpdateCustomLightTheme(overrides) ==
    LET theme == LightWithOverrides(overrides)
    IN  /\ ops < MaxOps
        /\ tb' = ApplyTheme([tb EXCEPT !.theme_mode = "Light"], theme)
        /\ ops' = ops + 1
        /\ last_op' = "update_custom_light_theme"
        /\ last_arg' = overrides
        /\ last_result' = "unit"
        /\ last_query' = NoQuery
        /\ UNCHANGED <<ctx_visuals, platform>>
        /\ UNCHANGED <<shortcutVars, parseVars, overrideVars, restVars>>

\* TitleBar::update_custom_dark_theme(overrides)
UpdateCustomDarkTheme(overrides) ==
    LET theme == DarkWithOverrides(overrides)
    IN  /\ ops < MaxOps
        /\ tb' = ApplyTheme([tb EXCEPT !.theme_mode = "Dark"], theme)
        /\ ops' = ops + 1
        /\ last_op' = "update_custom_dark_theme"
        /\ last_arg' = overrides
        /\ last_result' = "unit"
        /\ last_query' = NoQuery
        /\ UNCHANGED <<ctx_visuals, platform>>
        /\ UNCHANGED <<shortcutVars, parseVars, overrideVars, restVars>>

\* TitleBar::with_title_color(color)
WithTitleColor(color) ==
    /\ ops < MaxOps
    /\ tb' = [tb EXCEPT !.title_color = color]
    /\ ops' = ops + 1
    /\ last_op' = "with_title_color"
    /\ last_arg' = color
    /\ last_result' = "unit"
    /\ last_query' = NoQuery
    /\ UNCHANGED <<ctx_visuals, platform>>
    /\ UNCHANGED <<shortcutVars, parseVars, overrideVars, restVars>>

\* The fields that sync_with_egui_theme and sync_with_system_theme assign.
SyncTheme(bar, is_dark) ==
    LET theme == IF is_dark THEN Dark ELSE Light
    IN  [bar EXCEPT !.background_color = theme.background_color,
                  !.hover_color = theme.hover_color,
                  !.close_hover_color = theme.close_hover_color,
                  !.close_icon_color = theme.close_icon_color,
                  !.maximize_icon_color = theme.maximize_icon_color,
                  !.restore_icon_color = theme.restore_icon_color,
                  !.minimize_icon_color = theme.minimize_icon_color,
                  !.title_color = theme.title_color,
                  !.menu_text_color = theme.menu_text_color,
                  !.menu_hover_color = theme.menu_hover_color]

\* TitleBar::sync_with_egui_theme(ctx); is_dark is ctx.style().visuals.dark_mode.
SyncWithEguiTheme(is_dark) ==
    /\ ops < MaxOps
    /\ tb' = IF tb.theme_mode = "System" THEN SyncTheme(tb, is_dark) ELSE tb
    /\ ops' = ops + 1
    /\ last_op' = "sync_with_egui_theme"
    /\ last_arg' = is_dark
    /\ last_result' = "unit"
    /\ last_query' = NoQuery
    /\ UNCHANGED <<ctx_visuals, platform>>
    /\ UNCHANGED <<shortcutVars, parseVars, overrideVars, restVars>>

\* TitleBar::sync_with_system_theme(): the OS is asked only in System mode.
SyncWithSystemTheme(q) ==
    /\ ops < MaxOps
    /\ q \in QueriesFor(tb.theme_mode)
    /\ tb' = IF tb.theme_mode = "System"
             THEN SyncTheme(tb, DetectSystemDarkMode(platform, q))
             ELSE tb
    /\ ops' = ops + 1
    /\ last_op' = "sync_with_system_theme"
    /\ last_arg' = "unit"
    /\ last_result' = "unit"
    /\ last_query' = q
    /\ UNCHANGED <<ctx_visuals, platform>>
    /\ UNCHANGED <<shortcutVars, parseVars, overrideVars, restVars>>

(***************************************************************************)
(* Custom icons of title bars and their shortcuts (titlebar/api.rs).       *)
(* Two title bars live in one process: "A", whose handle_icon_shortcuts    *)
(* runs once in every frame, and "B", which may or may not run its own.    *)
(***************************************************************************)
BarIds == {"A", "B"}

\* The arguments of the add_* calls: the kind of the CustomIcon, whether a
\* callback is given, and the shortcut.
IconInputs ==
    { [kind |-> "Image", callback |-> TRUE,
       shortcut |-> Some(KeyboardShortcut("S", TRUE, FALSE, FALSE, FALSE))],
      [kind |-> "Drawn", callback |-> FALSE,
       shortcut |-> Some(KeyboardShortcut("S", TRUE, FALSE, FALSE, FALSE))],
      [kind |-> "Drawn", callback |-> TRUE,
       shortcut |-> Some(KeyboardShortcut("P", FALSE, TRUE, TRUE, FALSE))],
      [kind |-> "Animated", callback |-> TRUE, shortcut |-> NoneOpt],
      [kind |-> "AnimatedUi", callback |-> TRUE,
       shortcut |-> Some(KeyboardShortcut("S", TRUE, FALSE, FALSE, FALSE))] }

\* The input snapshots of the frames.
IdleInput ==
    [pressed |-> {}, ctrl |-> FALSE, alt |-> FALSE, shift |-> FALSE, command |-> FALSE]
IconFrameInputs ==
    { IdleInput,
      [pressed |-> {"S"}, ctrl |-> TRUE, alt |-> FALSE, shift |-> FALSE, command |-> FALSE],
      [pressed |-> {"P"}, ctrl |-> FALSE, alt |-> TRUE, shift |-> TRUE, command |-> FALSE] }

NoStates == [k \in {} |-> FALSE]

\* IconAnimationState: `seen` is last_time # 0.0; `owner` is not a field of
\* the struct, it records the index of the icon the state was created for.
IconAnimationState(owner) == [owner |-> owner, seen |-> FALSE]

\* TitleBar::add_icon(icon, callback, tooltip, shortcut)
AddIcon(bar, icon) ==
    [bar EXCEPT !.custom_icons = Append(bar.custom_icons, icon),
                !.icon_animation_states =
                    IF icon.kind = "Animated"
                    THEN Append(bar.icon_animation_states,
                                IconAnimationState(Len(bar.custom_icons) + 1))
                    ELSE bar.icon_animation_states]

\* Vec::resize(new_len, Default::default()) when the vector is shorter.
ResizeNever(states, new_len) == states
Resize(states, new_len) ==
    [k \in 1..new_len |->
        IF k <= Len(states) THEN states[k] ELSE IconAnimationState(k)]

\* TitleBar::render_custom_icons(ui): the animation states after it.
\* render_log records the accesses icon_animation_states[index] of the last
\* call (index counted from 1) and the length of the vector before the call
\* and when they were made.
RenderCustomIcons(bar) ==
    IF bar.custom_icons = <<>> THEN bar
    ELSE LET n == Len(bar.custom_icons)
             resized == IF Len(bar.icon_animation_states) < n
                        THEN Resize(bar.icon_animation_states, n)
                        ELSE bar.icon_animation_states
         IN  [bar EXCEPT !.icon_animation_states =
                 [k \in 1..Len(resized) |->
                     IF k <= n /\ bar.custom_icons[k].kind \in {"Animated", "AnimatedUi"}
                     THEN [resized[k] EXCEPT !.seen = TRUE]
                     ELSE resized[k]],
                         !.render_log =
                 [ accessed |-> {k \in 1..n :
                                   bar.custom_icons[k].kind \in {"Animated", "AnimatedUi"}},
                   len_before |-> Len(bar.icon_animation_states),
                   len |-> Len(resized) ]]

\* The loop of handle_icon_shortcuts from icon k on: the shortcut states
\* after it and the icons whose callback it invoked.
RECURSIVE HandleFrom(_, _, _, _, _)
HandleFrom(icons, k, states, i, done) ==
    IF k > Len(icons) THEN [states |-> states, invoked |-> done]
    ELSE LET icon_button == icons[k]
         IN  IF icon_button.shortcut.some
             THEN LET shortcut == icon_button.shortcut.v
                      fires == JustPressedResult(states, shortcut, i)
                                   /\ icon_button.callback
                  IN  HandleFrom(icons, k + 1,
                                 Insert(states, ShortcutKey(shortcut),
                                        CurrentFramePressed(shortcut, i)),
                                 i,
                                 IF fires THEN done \cup {k} ELSE done)
             ELSE HandleFrom(icons, k + 1, states, i, done)

\* TitleBar::handle_icon_shortcuts(ctx)
HandleIconShortcuts(icons, states, i) == HandleFrom(icons, 1, states, i, {})

NewBar ==
    [ custom_icons |-> <<>>, icon_animation_states |-> <<>>,
      render_log |-> [accessed |-> {}, len_before |-> 0, len |-> 0] ]

TotalIcons == Len(bars["A"].custom_icons) + Len(bars["B"].custom_icons)

IconInit ==
    /\ bars = [b \in BarIds |-> NewBar]
    /\ icon_frames = 0
    /\ prev_input = IdleInput
    /\ handled = {}
    /\ invoked = [b \in BarIds |-> {}]
    /\ alone = [b \in BarIds |-> NoStates]
    /\ invoked_alone = [b \in BarIds |-> {}]

IconIdle == IconInit

\* What the actions on the icons leave alone.
iconRest == <<called, observed, frame_cond, frame_result, parseVars,
              overrideVars, themeVars, itemVars, cornerVars, starterVars, menuVars,
              threadVars>>

\* title_bar = title_bar.add_icon(icon, callback, tooltip, shortcut), while
\* the application builds its title bars.
CallAddIcon(b, icon) ==
    /\ icon_frames = 0
    /\ TotalIcons < MaxIcons
    /\ icon.kind \in {"Image", "Drawn"}
    /\ bars' = [bars EXCEPT ![b] = AddIcon(bars[b], icon)]
    /\ UNCHANGED <<SHORTCUT_STATES, input, icon_frames, prev_input, handled,
                   invoked, alone, invoked_alone>>
    /\ UNCHANGED iconRest

\* title_bar.add_animated_icon(draw, callback, tooltip, shortcut)
CallAddAnimatedIcon(b, icon) ==
    /\ icon_frames = 0
    /\ TotalIcons < MaxIcons
    /\ icon.kind = "Animated"
    /\ bars' = [bars EXCEPT ![b] = AddIcon(bars[b], icon)]
    /\ UNCHANGED <<SHORTCUT_STATES, input, icon_frames, prev_input, handled,
                   invoked, alone, invoked_alone>>
    /\ UNCHANGED iconRest

\* title_bar.add_animated_ui_icon(draw, callback, tooltip, shortcut)
CallAddAnimatedUiIcon(b, icon) ==
    /\ icon_frames = 0
    /\ TotalIcons < MaxIcons
    /\ icon.kind = "AnimatedUi"
    /\ bars' = [bars EXCEPT ![b] = AddIcon(bars[b], icon)]
    /\ UNCHANGED <<SHORTCUT_STATES, input, icon_frames, prev_input, handled,
                   invoked, alone, invoked_alone>>
    /\ UNCHANGED iconRest

\* title_bar.render_custom_icons(ui)
CallRenderCustomIcons(b) ==
    /\ bars' = [bars EXCEPT ![b] = RenderCustomIcons(bars[b])]
    /\ UNCHANGED <<SHORTCUT_STATES, input, icon_frames, prev_input, handled,
                   invoked, alone, invoked_alone>>
    /\ UNCHANGED iconRest

\* The host begins a frame with a new input snapshot; title bar "A" handled
\* its shortcuts in the frame that ends.
IconFrame(i) ==
    /\ icon_frames < MaxIconFrames
    /\ icon_frames = 0 \/ "A" \in handled
    /\ icon_frames' = icon_frames + 1
    /\ prev_input' = input
    /\ input' = i
    /\ handled' = {}
    /\ invoked' = [b \in BarIds |-> {}]
    /\ invoked_alone' = [b \in BarIds |-> {}]
    /\ UNCHANGED <<SHORTCUT_STATES, bars, alone>>
    /\ UNCHANGED iconRest

\* title_bar.handle_icon_shortcuts(ctx), once per title bar and frame.
CallHandleIconShortcuts(b) ==
    LET real == HandleIconShortcuts(bars[b].custom_icons, SHORTCUT_STATES, input)
        solo == HandleIconShortcuts(bars[b].custom_icons, alone[b], input)
    IN  /\ icon_frames > 0
        /\ b \notin handled
        /\ SHORTCUT_STATES' = real.states
        /\ invoked' = [invoked EXCEPT ![b] = real.invoked]
        /\ alone' = [alone EXCEPT ![b] = solo.states]
        /\ invoked_alone' = [invoked_alone EXCEPT ![b] = solo.invoked]
        /\ handled' = handled \cup {b}
        /\ UNCHANGED <<input, bars, icon_frames, prev_input>>
        /\ UNCHANGED iconRest

(***************************************************************************)
(* Menu items (menu/items.rs).  A callback is an owned closure: the model  *)
(* names each closure, Some(name) is a callback and NoneOpt none.          *)
(***************************************************************************)
\* SubMenuItem::new(label)
SubMenuItemNew(label) ==
    [ label |-> label, shortcut |-> NoneOpt, enabled |-> TRUE,
      separator_after |-> FALSE, callback |-> NoneOpt, children |-> <<>> ]

\* SubMenuItem::with_shortcut, with_callback, disabled, with_separator,
\* add_child
WithShortcut(it, shortcut) == [it EXCEPT !.shortcut = Some(shortcut)]
WithCallback(it, callback) == [it EXCEPT !.callback = Some(callback)]
Disabled(it) == [it EXCEPT !.enabled = FALSE]
WithSeparator(it) == [it EXCEPT !.separator_after = TRUE]
AddChild(it, child) == [it EXCEPT !.children = Append(it.children, child)]

\* impl Clone for SubMenuItem; children.clone() clones every child with
\* this same clone.
RECURSIVE SubMenuItemClone(_)
SubMenuItemCloneShallow(it) ==
    [ label |-> it.label, shortcut |-> it.shortcut, enabled |-> it.enabled,
      separator_after |-> it.separator_after, callback |-> NoneOpt,
      children |-> it.children ]
SubMenuItemClone(it) ==
    [ label |-> it.label, shortcut |-> it.shortcut, enabled |-> it.enabled,
      separator_after |-> it.separator_after, callback |-> NoneOpt,
      children |-> [k \in 1..Len(it.children) |-> SubMenuItemClone(it.children[k])] ]

\* MenuItem::new(label), add_subitem, disabled
MenuItemNew(label) == [label |-> label, subitems |-> <<>>, enabled |-> TRUE]
AddSubitem(m, subitem) == [m EXCEPT !.subitems = Append(m.subitems, subitem)]
MenuDisabled(m) == [m EXCEPT !.enabled = FALSE]

\* #[derive(Clone)] for MenuItem
MenuItemClone(m) ==
    [ label |-> m.label,
      subitems |-> [k \in 1..Len(m.subitems) |-> SubMenuItemClone(m.subitems[k])],
      enabled |-> m.enabled ]

\* The items given to add_child.
ChildInputs ==
    { WithCallback(SubMenuItemNew("Open"), "open_file"),
      Disabled(WithShortcut(SubMenuItemNew("Exit"),
                            KeyboardShortcut("S", TRUE, FALSE, FALSE, FALSE))) }

ItemInit ==
    /\ item = SubMenuItemNew("New")
    /\ menu_item = MenuItemNew("File")
    /\ builds = 0
    /\ item_clone = NotCalled
    /\ menu_clone = NotCalled

\* What the actions on menu items leave alone.
itemRest == <<shortcutVars, parseVars, overrideVars, themeVars, iconVars,
              cornerVars, starterVars, menuVars,
              threadVars>>

\* One builder call on the item in hand; nothing is built after a clone was
\* taken, so that the original and its clone are seen side by side.
Build(next_item, next_menu) ==
    /\ builds < MaxBuild
    /\ item_clone = NotCalled
    /\ menu_clone = NotCalled
    /\ item' = next_item
    /\ menu_item' = next_menu
    /\ builds' = builds + 1
    /\ UNCHANGED <<item_clone, menu_clone>>
    /\ UNCHANGED itemRest

CallWithShortcut(shortcut) == Build(WithShortcut(item, shortcut), menu_item)
CallWithCallback(callback) == Build(WithCallback(item, callback), menu_item)
CallDisabled == Build(Disabled(item), menu_item)
CallWithSeparator == Build(WithSeparator(item), menu_item)
CallAddChild(child) == Build(AddChild(item, child), menu_item)
\* SubMenuItem::new(label).add_child(item): the tree grows bottom-up.
CallNest(label) == Build(AddChild(SubMenuItemNew(label), item), menu_item)
CallAddSubitem == Build(item, AddSubitem(menu_item, item))
CallMenuDisabled == Build(item, MenuDisabled(menu_item))

\* item.clone()
CallCloneItem ==
    /\ item_clone = NotCalled
    /\ item_clone' = Ok(SubMenuItemClone(item))
    /\ UNCHANGED <<item, menu_item, builds, menu_clone>>
    /\ UNCHANGED itemRest

\* menu_item.clone()
CallCloneMenu ==
    /\ menu_clone = NotCalled
    /\ menu_clone' = Ok(MenuItemClone(menu_item))
    /\ UNCHANGED <<item, menu_item, builds, item_clone>>
    /\ UNCHANGED itemRest

(***************************************************************************)
(* apply_rounded_corners (utils/rounded_corners.rs).                       *)
(***************************************************************************)
Windows == {"main", "second"}

\* frame.window_handle(): an error, or a RawWindowHandle of some type.
HandleTypes == {"Win32", "AppKit", "Xlib", "Wayland", "Web"}
WindowHandles ==
    {[ok |-> FALSE, type |-> "none"]} \cup {[ok |-> TRUE, type |-> t] : t \in HandleTypes}

\* What apply_native_rounded_corners can return.
NativeResults == {"Ok", "Err"}

\* Once::call_once runs the closure only while the Once is incomplete.
CallOnceAlways(init) == TRUE
CallOnce(init) == init = "incomplete"

\* The match on the handle: the pointer for the four supported types.
NativePtr(handle) == handle.type \in {"Win32", "AppKit", "Xlib", "Wayland"}

\* The closure given to call_once: whether the native call is made, and
\* what is printed.
Closure(handle, native) ==
    IF ~handle.ok THEN [native_call |-> FALSE, log |-> <<>>]
    ELSE IF ~NativePtr(handle)
         THEN [native_call |-> FALSE, log |-> <<"not supported">>]
         ELSE [native_call |-> TRUE,
               log |-> <<"using handle",
                         IF native = "Ok" THEN "applied" ELSE "failed to apply">>]

NoCornerCall ==
    [window |-> "none", handle |-> [ok |-> FALSE, type |-> "none"],
     native |-> "Ok", ran |-> FALSE, log |-> <<>>, outcome |-> "none"]

CornerInit ==
    /\ INIT = "incomplete"
    /\ native_calls = [w \in Windows |-> 0]
    /\ corner_calls = 0
    /\ last_corner = NoCornerCall

\* What the calls of apply_rounded_corners leave alone.
cornerRest == <<shortcutVars, parseVars, overrideVars, themeVars, iconVars,
                itemVars, starterVars, menuVars,
              threadVars>>

\* apply_rounded_corners(frame) for the frame of window w; `handle` is what
\* frame.window_handle() gives and `native` what the native call would
\* return.
ApplyRoundedCorners(w, handle, native) ==
    LET runs == CallOnce(INIT)
        c == Closure(handle, native)
    IN  /\ corner_calls < MaxCornerCalls
        /\ corner_calls' = corner_calls + 1
        /\ INIT' = IF runs THEN "complete" ELSE INIT
        /\ native_calls' = IF runs /\ c.native_call
                           THEN [native_calls EXCEPT ![w] = @ + 1]
                           ELSE native_calls
        /\ last_corner' = [window |-> w, handle |-> handle, native |-> native,
                           ran |-> runs /\ c.native_call,
                           log |-> IF runs THEN c.log ELSE <<>>,
                           outcome |-> "returned"]
        /\ UNCHANGED cornerRest

(***************************************************************************)
(* The starter application (cli/src/starter/app.rs): the requests that     *)
(* callbacks store in statics and that update() reads and clears.  The     *)
(* callbacks are Send + Sync closures: the model lets them run between any *)
(* two steps of update().                                                  *)
(***************************************************************************)
\* match theme_request { 1 => Light, 2 => Dark, 3 => Auto, 4 => CustomLight,
\* 5 => CustomDark }
AppThemeOf(theme_request) ==
    CASE theme_request = 1 -> "Light"
      [] theme_request = 2 -> "Dark"
      [] theme_request = 3 -> "Auto"
      [] theme_request = 4 -> "CustomLight"
      [] theme_request = 5 -> "CustomDark"

\* AtomicBool::swap / AtomicU8::swap / Option::take: what is returned and
\* what the static holds afterwards.
SwapLoadOnly(current, value) == [returned |-> current, stored |-> current]
Swap(current, value) == [returned |-> current, stored |-> value]

FlagNames == {"toggle", "theme", "id"}

StarterInit ==
    /\ TOGGLE_SIDEBAR = FALSE
    /\ THEME_CHANGE_REQUEST = 0
    /\ CUSTOM_THEME_ID_REQUEST = NoneOpt
    /\ app = [app_theme |-> "Light", show_sidebar |-> TRUE,
              selected_custom_id |-> "ocean"]
    /\ update_pc = "idle"
    /\ callback_pc = NoneOpt
    /\ requests = [frames |-> 0, stores |-> 0,
                   raised |-> [f \in FlagNames |-> 0],
                   acted |-> [f \in FlagNames |-> 0],
                   intended |-> NoneOpt, consumed |-> NoneOpt, applied |-> NoneOpt]

\* What the starter application leaves alone.
starterRest == <<shortcutVars, parseVars, overrideVars, themeVars, iconVars,
                 itemVars, cornerVars, menuVars,
              threadVars>>

\* A store into a static raises a request when none is pending there.
Raise(f, pending) ==
    [requests EXCEPT !.stores = @ + 1,
                     !.raised[f] = IF pending THEN @ ELSE @ + 1]

\* The callbacks "Light Theme", "Dark Theme", "Auto Theme":
\* THEME_CHANGE_REQUEST.store(n)
StoreTheme(n) ==
    /\ requests.stores < MaxStores
    /\ callback_pc = NoneOpt
    /\ THEME_CHANGE_REQUEST' = n
    /\ requests' = [Raise("theme", THEME_CHANGE_REQUEST # 0) EXCEPT !.intended = NoneOpt]
    /\ UNCHANGED <<TOGGLE_SIDEBAR, CUSTOM_THEME_ID_REQUEST, app, update_pc, callback_pc>>
    /\ UNCHANGED starterRest

\* The callbacks of the custom themes, first statement:
\* THEME_CHANGE_REQUEST.store(4 or 5)
StoreCustomTheme(n, id) ==
    /\ requests.stores < MaxStores
    /\ callback_pc = NoneOpt
    /\ THEME_CHANGE_REQUEST' = n
    /\ callback_pc' = Some(id)
    /\ requests' = [Raise("theme", THEME_CHANGE_REQUEST # 0) EXCEPT !.intended = Some(id)]
    /\ UNCHANGED <<TOGGLE_SIDEBAR, CUSTOM_THEME_ID_REQUEST, app, update_pc>>
    /\ UNCHANGED starterRest

\* ... second statement: *CUSTOM_THEME_ID_REQUEST.lock() = Some(id)
StoreCustomId ==
    /\ callback_pc # NoneOpt
    /\ CUSTOM_THEME_ID_REQUEST' = Some(callback_pc.v)
    /\ callback_pc' = NoneOpt
    /\ requests' = [requests EXCEPT
                       !.raised["id"] = IF CUSTOM_THEME_ID_REQUEST.some THEN @ ELSE @ + 1]
    /\ UNCHANGED <<TOGGLE_SIDEBAR, THEME_CHANGE_REQUEST, app, update_pc>>
    /\ UNCHANGED starterRest

\* The callback of the sidebar icon: TOGGLE_SIDEBAR.store(true)
StoreToggle ==
    /\ requests.stores < MaxStores
    /\ callback_pc = NoneOpt
    /\ TOGGLE_SIDEBAR' = TRUE
    /\ requests' = Raise("toggle", TOGGLE_SIDEBAR)
    /\ UNCHANGED <<THEME_CHANGE_REQUEST, CUSTOM_THEME_ID_REQUEST, app, update_pc, callback_pc>>
    /\ UNCHANGED starterRest

\* update(), first step: THEME_CHANGE_REQUEST.swap(0) and the match on it.
UpdateTheme ==
    LET swapped == Swap(THEME_CHANGE_REQUEST, 0)
        theme_request == swapped.returned
    IN  /\ update_pc = "idle"
        /\ requests.frames < MaxUpdates
        /\ THEME_CHANGE_REQUEST' = swapped.stored
        /\ app' = IF theme_request # 0
                  THEN [app EXCEPT !.app_theme = AppThemeOf(theme_request)]
                  ELSE app
        /\ requests' = [requests EXCEPT
                           !.frames = @ + 1,
                           !.acted["theme"] = IF theme_request # 0 THEN @ + 1 ELSE @,
                           !.intended = NoneOpt,
                           !.consumed = IF theme_request \in {4, 5}
                                        THEN requests.intended ELSE NoneOpt]
        /\ update_pc' = "theme done"
        /\ UNCHANGED <<TOGGLE_SIDEBAR, CUSTOM_THEME_ID_REQUEST, callback_pc>>
        /\ UNCHANGED starterRest

\* update(), second step: id_request.take() under the lock.
UpdateCustomId ==
    LET taken == Swap(CUSTOM_THEME_ID_REQUEST, NoneOpt)
        new_id == taken.returned
    IN  /\ update_pc = "theme done"
        /\ CUSTOM_THEME_ID_REQUEST' = taken.stored
        /\ app' = IF new_id.some
                  THEN [app EXCEPT !.selected_custom_id = new_id.v]
                  ELSE app
        /\ requests' = [requests EXCEPT
                           !.acted["id"] = IF new_id.some THEN @ + 1 ELSE @]
        /\ update_pc' = "id done"
        /\ UNCHANGED <<TOGGLE_SIDEBAR, THEME_CHANGE_REQUEST, callback_pc>>
        /\ UNCHANGED starterRest

\* update(), third step: if TOGGLE_SIDEBAR.swap(false) { self.toggle_sidebar() }
UpdateToggle ==
    LET swapped == Swap(TOGGLE_SIDEBAR, FALSE)
    IN  /\ update_pc = "id done"
        /\ TOGGLE_SIDEBAR' = swapped.stored
        /\ app' = IF swapped.returned
                  THEN [app EXCEPT !.show_sidebar = ~app.show_sidebar]
                  ELSE app
        /\ requests' = [requests EXCEPT
                           !.acted["toggle"] = IF swapped.returned THEN @ + 1 ELSE @]
        /\ update_pc' = "toggle done"
        /\ UNCHANGED <<THEME_CHANGE_REQUEST, CUSTOM_THEME_ID_REQUEST, callback_pc>>
        /\ UNCHANGED starterRest

\* update(), the rest of the frame, none of which touches the statics:
\* match self.app_theme { CustomLight | CustomDark =>
\* self.title_bar.switch_theme(ctx, &self.selected_custom_id), ... }
UpdateEnd ==
    /\ update_pc = "toggle done"
    /\ update_pc' = "idle"
    /\ requests' = [requests EXCEPT
                       !.applied =
                           IF app.app_theme \in {"CustomLight", "CustomDark"}
                           THEN Some([theme_id |-> app.selected_custom_id,
                                      request |-> requests.consumed])
                           ELSE NoneOpt]
    /\ UNCHANGED <<TOGGLE_SIDEBAR, THEME_CHANGE_REQUEST, CUSTOM_THEME_ID_REQUEST,
                   app, callback_pc>>
    /\ UNCHANGED starterRest

(***************************************************************************)
(* The menu interaction of a title bar.  The fields are those of TitleBar  *)
(* (titlebar/main.rs); the transitions live in titlebar/render_bar.rs and  *)
(* menu/api.rs, which the sources at hand declare but do not contain, so   *)
(* they follow section 4.4 of the specification.                           *)
(***************************************************************************)
\* menu_items_with_submenus after the menus were added: File with New and
\* Open; Edit with a disabled Undo and a Recent that has children; a
\* disabled Help.
MenuBarItems ==
    << AddSubitem(AddSubitem(MenuItemNew("File"),
           WithCallback(WithShortcut(SubMenuItemNew("New"),
               KeyboardShortcut("N", TRUE, FALSE, FALSE, FALSE)), "new")),
           WithCallback(WithShortcut(SubMenuItemNew("Open"),
               KeyboardShortcut("O", TRUE, FALSE, FALSE, FALSE)), "open")),
       AddSubitem(AddSubitem(MenuItemNew("Edit"),
           Disabled(WithCallback(SubMenuItemNew("Undo"), "undo"))),
           AddChild(AddChild(SubMenuItemNew("Recent"),
               WithCallback(WithShortcut(SubMenuItemNew("Doc"),
                   KeyboardShortcut("D", TRUE, FALSE, FALSE, FALSE)), "doc")),
               Disabled(WithCallback(SubMenuItemNew("Old"), "old")))),
       MenuDisabled(AddSubitem(MenuItemNew("Help"),
           WithCallback(SubMenuItemNew("About"), "about"))) >>

MenuIndexes == 1..Len(MenuBarItems)

\* The fields TitleBar::new gives the interaction state.
MenuNew ==
    [ open_submenu |-> NoneOpt,
      submenu_just_opened_frame |-> FALSE,
      keyboard_navigation_active |-> FALSE,
      selected_menu_index |-> NoneOpt,
      selected_submenu_index |-> NoneOpt,
      force_open_child_subitem |-> NoneOpt,
      selected_child_submenu_index |-> NoneOpt ]

NoMenuInput == [kind |-> "none", at |-> 0, outside |-> FALSE]

\* The keys of the end-to-end scenario: Alt, Down into File, Down to Open,
\* Enter.
ScenarioKeys == <<"Alt", "Down", "Down", "Enter">>

MenuInit ==
    /\ menu = MenuNew
    /\ menu_log = [frames |-> 0, input |-> NoMenuInput, before |-> MenuNew,
                   invoked |-> <<>>, all_invoked |-> <<>>, on_scenario |-> TRUE,
                   states_before |-> NoStates]

\* What a frame of menu interaction leaves alone.
menuRest == <<called, observed, frame_cond, frame_result, parseVars, overrideVars,
              themeVars, iconVars, itemVars, cornerVars, starterVars, threadVars>>

\* The result of handling an event: the new fields and the callbacks invoked.
Handled(st, callbacks) == [menu |-> st, invoked |-> callbacks]

\* -> Closed
CloseMenu(st) ==
    [st EXCEPT !.open_submenu = NoneOpt,
               !.selected_submenu_index = NoneOpt,
               !.force_open_child_subitem = NoneOpt,
               !.selected_child_submenu_index = NoneOpt]

\* -> MenuOpen(i), with the just-opened guard; whatever was open closes.
OpenMenu(st, i, selected) ==
    [CloseMenu(st) EXCEPT !.open_submenu = Some(i),
                          !.submenu_just_opened_frame = TRUE,
                          !.selected_submenu_index = selected]

\* The items of the open menu, and the children of its open child list.
OpenItems(st) ==
    IF st.open_submenu.some THEN MenuBarItems[st.open_submenu.v].subitems ELSE <<>>
OpenChildren(st) ==
    IF st.force_open_child_subitem.some
    THEN OpenItems(st)[st.force_open_child_subitem.v].children
    ELSE <<>>

\* Invoke the callback of an item, if it has one.
Invoke(it) == IF it.callback.some THEN <<it.callback.v>> ELSE <<>>

\* Pointer click on the header of top-level menu i.
ClickHeaderOnlyWhenClosed(st, i) ==
    IF ~MenuBarItems[i].enabled THEN st
    ELSE IF st.open_submenu = Some(i) THEN CloseMenu(st)
    ELSE IF st.open_submenu.some THEN st
    ELSE OpenMenu(st, i, NoneOpt)
ClickHeader(st, i) ==
    IF ~MenuBarItems[i].enabled THEN st
    ELSE IF st.open_submenu = Some(i) THEN CloseMenu(st)
    ELSE OpenMenu(st, i, NoneOpt)

\* Pointer click outside every header and submenu region: the
\* close-on-outside-click check, which the just-opened guard suppresses.
ClickOutsideNoGuard(st) == IF st.open_submenu.some THEN CloseMenu(st) ELSE st
ClickOutside(st) ==
    IF st.open_submenu.some /\ ~st.submenu_just_opened_frame
    THEN CloseMenu(st)
    ELSE st

\* Activation of an item or child: a disabled one does nothing, an enabled
\* leaf invokes its callback and closes the menu.
ActivateLeaf(st, it) ==
    IF ~it.enabled THEN Handled(st, <<>>)
    ELSE Handled(CloseMenu(st), Invoke(it))

\* Pointer click on item j of the open menu.
ClickItemAlsoDisabled(st, j) ==
    LET it == OpenItems(st)[j]
    IN  IF Len(it.children) = 0 THEN Handled(CloseMenu(st), Invoke(it))
        ELSE Handled([st EXCEPT !.force_open_child_subitem = Some(j),
                                !.selected_child_submenu_index = NoneOpt], <<>>)
ClickItem(st, j) ==
    LET it == OpenItems(st)[j]
    IN  IF Len(it.children) = 0 THEN ActivateLeaf(st, it)
        ELSE IF ~it.enabled THEN Handled(st, <<>>)
        ELSE IF st.force_open_child_subitem = Some(j)
        THEN Handled([st EXCEPT !.force_open_child_subitem = NoneOpt,
                                !.selected_child_submenu_index = NoneOpt], <<>>)
        ELSE Handled([st EXCEPT !.force_open_child_subitem = Some(j),
                                !.selected_child_submenu_index = NoneOpt], <<>>)

\* Pointer click on child k of the open child list.
ClickChild(st, k) == ActivateLeaf(st, OpenChildren(st)[k])

\* The pointer click of a frame; a click on something that is not shown is
\* a click outside.  A click on a header is handled by the header first and
\* may then also reach the close-on-outside-click check of the same frame.
Click(st, event) ==
    CASE event.kind = "header" ->
             LET clicked == ClickHeader(st, event.at)
             IN  Handled(IF event.outside THEN ClickOutside(clicked) ELSE clicked, <<>>)
      [] event.kind = "item" /\ event.at <= Len(OpenItems(st)) -> ClickItem(st, event.at)
      [] event.kind = "child" /\ event.at <= Len(OpenChildren(st)) -> ClickChild(st, event.at)
      [] OTHER -> Handled(ClickOutside(st), <<>>)

\* Moving a selection with wrapping; no selection becomes the first entry.
NextIndex(sel, n) == IF ~sel.some THEN Some(1) ELSE Some((sel.v % n) + 1)
PrevIndex(sel, n) == IF ~sel.some \/ sel.v = 1 THEN Some(n) ELSE Some(sel.v - 1)

\* The first enabled item of top-level menu i, if any.
FirstEnabled(i) ==
    LET items == MenuBarItems[i].subitems
        enabled == {j \in 1..Len(items) : items[j].enabled}
    IN  IF enabled = {} THEN NoneOpt
        ELSE Some(CHOOSE j \in enabled : \A k \in enabled : j <= k)

\* Alt toggles keyboard navigation.
PressAlt(st) ==
    IF st.keyboard_navigation_active
    THEN [st EXCEPT !.keyboard_navigation_active = FALSE]
    ELSE [st EXCEPT !.keyboard_navigation_active = TRUE,
                    !.selected_menu_index =
                        IF st.selected_menu_index.some THEN @ ELSE Some(1)]

\* The arrow keys while keyboard navigation is active.
PressArrow(st, key) ==
    LET items == OpenItems(st)
        children == OpenChildren(st)
        in_child == st.force_open_child_subitem.some /\ st.selected_child_submenu_index.some
        sel == st.selected_submenu_index
    IN  CASE key = "Left" /\ in_child ->
               [st EXCEPT !.selected_submenu_index = st.force_open_child_subitem,
                          !.force_open_child_subitem = NoneOpt,
                          !.selected_child_submenu_index = NoneOpt]
          [] key = "Right" /\ ~in_child /\ st.open_submenu.some /\ sel.some
               /\ Len(items[sel.v].children) > 0 /\ items[sel.v].enabled ->
               [st EXCEPT !.force_open_child_subitem = sel,
                          !.selected_child_submenu_index = Some(1)]
          [] key = "Left" /\ ~in_child ->
               [st EXCEPT !.selected_menu_index = PrevIndex(@, Len(MenuBarItems))]
          [] key = "Right" ->
               [st EXCEPT !.selected_menu_index = NextIndex(@, Len(MenuBarItems))]
          [] key = "Down" /\ ~st.open_submenu.some ->
               IF st.selected_menu_index.some /\ MenuBarItems[st.selected_menu_index.v].enabled
               THEN OpenMenu(st, st.selected_menu_index.v,
                             FirstEnabled(st.selected_menu_index.v))
               ELSE st
          [] key = "Down" /\ in_child ->
               [st EXCEPT !.selected_child_submenu_index = NextIndex(@, Len(children))]
          [] key = "Down" ->
               [st EXCEPT !.selected_submenu_index = NextIndex(@, Len(items))]
          [] key = "Up" /\ in_child ->
               [st EXCEPT !.selected_child_submenu_index = PrevIndex(@, Len(children))]
          [] key = "Up" /\ st.open_submenu.some ->
               [st EXCEPT !.selected_submenu_index = PrevIndex(@, Len(items))]
          [] OTHER -> st

\* Enter activates the selected leaf and clears keyboard navigation.
PressEnter(st) ==
    LET items == OpenItems(st)
        children == OpenChildren(st)
        in_child == st.force_open_child_subitem.some /\ st.selected_child_submenu_index.some
        it == IF in_child THEN children[st.selected_child_submenu_index.v]
              ELSE items[st.selected_submenu_index.v]
    IN  IF ~st.open_submenu.some \/ (~in_child /\ ~st.selected_submenu_index.some)
        THEN Handled(st, <<>>)
        ELSE IF ~it.enabled \/ Len(it.children) > 0
        THEN Handled(st, <<>>)
        ELSE Handled([CloseMenu(st) EXCEPT !.keyboard_navigation_active = FALSE],
                     Invoke(it))

\* Escape closes the open level, or clears keyboard navigation.
PressEscape(st) ==
    IF st.force_open_child_subitem.some
    THEN [st EXCEPT !.force_open_child_subitem = NoneOpt,
                    !.selected_child_submenu_index = NoneOpt]
    ELSE IF st.open_submenu.some THEN CloseMenu(st)
    ELSE [st EXCEPT !.keyboard_navigation_active = FALSE]

\* The key of a frame.
KeyPressEnterIgnored(st, key) ==
    CASE key = "Alt" -> Handled(PressAlt(st), <<>>)
      [] ~st.keyboard_navigation_active -> Handled(st, <<>>)
      [] key = "Enter" -> Handled(st, <<>>)
      [] key = "Escape" -> Handled(PressEscape(st), <<>>)
      [] OTHER -> Handled(PressArrow(st, key), <<>>)
KeyPress(st, key) ==
    CASE key = "Alt" -> Handled(PressAlt(st), <<>>)
      [] ~st.keyboard_navigation_active -> Handled(st, <<>>)
      [] key = "Enter" -> PressEnter(st)
      [] key = "Escape" -> Handled(PressEscape(st), <<>>)
      [] OTHER -> Handled(PressArrow(st, key), <<>>)

MenuKeys == {"Alt", "Left", "Right", "Up", "Down", "Enter", "Escape"}

\* Every submenu item of the menus, children included, in tree order.
RECURSIVE Flatten(_)
Flatten(items) ==
    IF items = <<>> THEN <<>>
    ELSE <<Head(items)>> \o Flatten(Head(items).children) \o Flatten(Tail(items))
RECURSIVE FlattenMenus(_)
FlattenMenus(menus) ==
    IF menus = <<>> THEN <<>>
    ELSE Flatten(Head(menus).subitems) \o FlattenMenus(Tail(menus))

\* The shortcut pass of a frame: every enabled item that has a shortcut asks
\* just_pressed, and the callback of each one that answers true is invoked.
\* The pass does not look at what is open.
RECURSIVE DispatchFrom(_, _, _, _, _)
DispatchFrom(items, k, states, i, done) ==
    IF k > Len(items) THEN [states |-> states, invoked |-> done]
    ELSE LET it == items[k]
         IN  IF it.shortcut.some /\ it.enabled
             THEN DispatchFrom(items, k + 1,
                               Insert(states, ShortcutKey(it.shortcut.v),
                                      CurrentFramePressed(it.shortcut.v, i)),
                               i,
                               IF JustPressedResult(states, it.shortcut.v, i)
                               THEN done \o Invoke(it) ELSE done)
             ELSE DispatchFrom(items, k + 1, states, i, done)

MenuShortcutsOnlyWhenClosed(st, states, i) ==
    IF st.open_submenu.some THEN [states |-> states, invoked |-> <<>>]
    ELSE DispatchFrom(FlattenMenus(MenuBarItems), 1, states, i, <<>>)
MenuShortcuts(st, states, i) ==
    DispatchFrom(FlattenMenus(MenuBarItems), 1, states, i, <<>>)

\* The keys of the shortcuts the menus carry.
MenuShortcutKeys == {"N", "O", "D"}

\* ctx.input of a frame: a chord is Ctrl held and a key pressed, a plain key
\* is pressed with no modifier held, everything else leaves the shortcut
\* keys alone.
InputOf(event) ==
    CASE event.kind = "chord" -> [IdleInput EXCEPT !.pressed = {event.at}, !.ctrl = TRUE]
      [] event.kind = "plain" -> [IdleInput EXCEPT !.pressed = {event.at}]
      [] OTHER -> IdleInput

MenuInputs ==
    [kind : {"chord"}, at : MenuShortcutKeys, outside : {FALSE}] \cup
    {[kind |-> "plain", at |-> "N", outside |-> FALSE]} \cup
    [kind : {"header"}, at : MenuIndexes, outside : BOOLEAN]
        \cup [kind : {"item", "child"}, at : {1, 2}, outside : {FALSE}]
        \cup {[kind |-> "outside", at |-> 0, outside |-> TRUE]}
        \cup {[kind |-> "key", at |-> key, outside |-> FALSE] : key \in MenuKeys}

\* One frame: the shortcut pass, then the guard of the previous frame is
\* dropped and the frame's click or key is handled.
MenuFrame(event) ==
    LET st == [menu EXCEPT !.submenu_just_opened_frame = FALSE]
        shortcuts == MenuShortcuts(menu, SHORTCUT_STATES, InputOf(event))
        done == CASE event.kind = "key" -> KeyPress(st, event.at)
                  [] event.kind \in {"chord", "plain"} -> Handled(st, <<>>)
                  [] OTHER -> Click(st, event)
        callbacks == shortcuts.invoked \o done.invoked
    IN  /\ menu_log.frames < MaxMenuFrames
        /\ input' = InputOf(event)
        /\ SHORTCUT_STATES' = shortcuts.states
        /\ menu' = done.menu
        /\ menu_log' = [frames |-> menu_log.frames + 1, input |-> event,
                        before |-> menu, invoked |-> callbacks,
                        all_invoked |-> menu_log.all_invoked \o callbacks,
                        states_before |-> SHORTCUT_STATES,
                        on_scenario |->
                            /\ menu_log.on_scenario
                            /\ menu_log.frames < Len(ScenarioKeys)
                            /\ event.kind = "key"
                            /\ event.at = ScenarioKeys[menu_log.frames + 1]]
        /\ UNCHANGED menuRest

(***************************************************************************)
(* just_pressed called from several threads for one shortcut identity      *)
(* while the input of the frame satisfies it and the table holds "not      *)
(* pressed" (menu/shortcuts.rs).                                           *)
(***************************************************************************)
ThreadIds == 1..MaxThreads

\* SHORTCUT_STATES.lock(): the lock is taken when no thread holds it.
CanLockAlways(holder) == TRUE
CanLock(holder) == ~holder.some

\* No thread is inside just_pressed.
ThreadInit ==
    /\ threads = [t \in ThreadIds |->
                    [pc |-> "idle", current_frame_pressed |-> FALSE,
                     was_pressed |-> FALSE, calls |-> 0]]
    /\ mutex = NoneOpt
    /\ true_returns = 0

\* What the threads leave alone.
threadRest == <<input, called, observed, frame_cond, frame_result, parseVars,
                overrideVars, themeVars, iconVars, itemVars, cornerVars,
                starterVars, menuVars>>

\* let current_frame_pressed = ctx.input(|i| ...)
JustPressedInput(t) ==
    /\ threads[t].pc = "idle"
    /\ threads[t].calls < MaxCalls
    /\ threads' = [threads EXCEPT
                      ![t].pc = "input read",
                      ![t].current_frame_pressed = CurrentFramePressed(observed, input)]
    /\ UNCHANGED <<SHORTCUT_STATES, mutex, true_returns>>
    /\ UNCHANGED threadRest

\* let mut states = SHORTCUT_STATES.lock().unwrap()
JustPressedLock(t) ==
    /\ threads[t].pc = "input read"
    /\ CanLock(mutex)
    /\ mutex' = Some(t)
    /\ threads' = [threads EXCEPT ![t].pc = "locked"]
    /\ UNCHANGED <<SHORTCUT_STATES, true_returns>>
    /\ UNCHANGED threadRest

\* let was_pressed = states.get(&shortcut_key).copied().unwrap_or(false)
JustPressedGet(t) ==
    /\ threads[t].pc = "locked"
    /\ threads' = [threads EXCEPT
                      ![t].pc = "got",
                      ![t].was_pressed = WasPressed(SHORTCUT_STATES, ShortcutKey(observed))]
    /\ UNCHANGED <<SHORTCUT_STATES, mutex, true_returns>>
    /\ UNCHANGED threadRest

\* states.insert(shortcut_key.clone(), current_frame_pressed)
JustPressedInsert(t) ==
    /\ threads[t].pc = "got"
    /\ SHORTCUT_STATES' = Insert(SHORTCUT_STATES, ShortcutKey(observed),
                                 threads[t].current_frame_pressed)
    /\ threads' = [threads EXCEPT ![t].pc = "inserted"]
    /\ UNCHANGED <<mutex, true_returns>>
    /\ UNCHANGED threadRest

\* current_frame_pressed && !was_pressed; the guard is dropped at the end of
\* the function.
JustPressedReturn(t) ==
    /\ threads[t].pc = "inserted"
    /\ true_returns' =
           IF threads[t].current_frame_pressed /\ ~threads[t].was_pressed
           THEN true_returns + 1 ELSE true_returns
    /\ mutex' = IF mutex = Some(t) THEN NoneOpt ELSE mutex
    /\ threads' = [threads EXCEPT ![t].pc = "idle", ![t].calls = @ + 1]
    /\ UNCHANGED SHORTCUT_STATES
    /\ UNCHANGED threadRest

(***************************************************************************)
(* Specifications.                                                         *)
(***************************************************************************)
\* The subsystems added after the themes, at rest.
RestIdle == IconIdle /\ ItemInit /\ CornerInit /\ StarterInit /\ MenuInit /\ ThreadInit

ShortcutNext ==
    \/ \E s \in Shortcuts : JustPressed(s)
    \/ \E i \in Inputs : NextFrame(i)

InitShortcut == ShortcutInit /\ ParseIdle /\ OverrideIdle /\ ThemeIdle /\ RestIdle

SpecShortcut == InitShortcut /\ [][ShortcutNext]_vars

ParseNext ==
    \/ CallFromString
    \/ CallDisplayString

InitParse == ShortcutIdle /\ ParseInit /\ OverrideIdle /\ ThemeIdle /\ RestIdle

SpecParse == InitParse /\ [][ParseNext]_vars

OverrideNext ==
    \/ CallLightWithOverrides
    \/ CallDarkWithOverrides

InitOverride == ShortcutIdle /\ ParseIdle /\ OverrideInit /\ ThemeIdle /\ RestIdle

SpecOverride == InitOverride /\ [][OverrideNext]_vars

ThemeNext ==
    \/ \E provider \in Providers : WithThemeProvider(provider)
    \/ \E theme_id \in ThemeIds : SwitchTheme(theme_id)
    \/ \E mode \in ThemeModes, q \in QueryOutcomes \cup {NoQuery} : WithThemeMode(mode, q)
    \/ \E mode \in ThemeModes, q \in QueryOutcomes \cup {NoQuery} : UpdateThemeMode(mode, q)
    \/ \E theme \in ThemeInputs : CallWithTheme(theme)
    \/ \E overrides \in TupleInputs : WithCustomLightTheme(overrides)
    \/ \E overrides \in TupleInputs : WithCustomDarkTheme(overrides)
    \/ \E overrides \in TupleInputs : UpdateCustomLightTheme(overrides)
    \/ \E overrides \in TupleInputs : UpdateCustomDarkTheme(overrides)
    \/ \E color \in {OverrideColors[2]} : WithTitleColor(color)
    \/ \E is_dark \in BOOLEAN : SyncWithEguiTheme(is_dark)
    \/ \E q \in QueryOutcomes \cup {NoQuery} : SyncWithSystemTheme(q)

InitTheme == ShortcutIdle /\ ParseIdle /\ OverrideIdle /\ ThemeInit /\ RestIdle

SpecTheme == InitTheme /\ [][ThemeNext]_vars

IconNext ==
    \/ \E b \in BarIds, icon \in IconInputs : CallAddIcon(b, icon)
    \/ \E b \in BarIds, icon \in IconInputs : CallAddAnimatedIcon(b, icon)
    \/ \E b \in BarIds, icon \in IconInputs : CallAddAnimatedUiIcon(b, icon)
    \/ \E b \in BarIds : CallRenderCustomIcons(b)
    \/ \E i \in IconFrameInputs : IconFrame(i)
    \/ \E b \in BarIds : CallHandleIconShortcuts(b)

InitIcon ==
    ShortcutIdle /\ ParseIdle /\ OverrideIdle /\ ThemeIdle /\ IconInit /\ ItemInit
        /\ CornerInit /\ StarterInit /\ MenuInit /\ ThreadInit

SpecIcon == InitIcon /\ [][IconNext]_vars

ItemNext ==
    \/ \E shortcut \in {KeyboardShortcut("P", FALSE, TRUE, TRUE, FALSE)} :
          CallWithShortcut(shortcut)
    \/ \E callback \in {"new_file"} : CallWithCallback(callback)
    \/ CallDisabled
    \/ CallWithSeparator
    \/ \E child \in ChildInputs : CallAddChild(child)
    \/ \E label \in {"Recent"} : CallNest(label)
    \/ CallAddSubitem
    \/ CallMenuDisabled
    \/ CallCloneItem
    \/ CallCloneMenu

InitItem ==
    ShortcutIdle /\ ParseIdle /\ OverrideIdle /\ ThemeIdle /\ IconIdle /\ ItemInit
        /\ CornerInit /\ StarterInit /\ MenuInit /\ ThreadInit

SpecItem == InitItem /\ [][ItemNext]_vars

CornerNext ==
    \E w \in Windows, handle \in WindowHandles, native \in NativeResults :
        ApplyRoundedCorners(w, handle, native)

InitCorner ==
    ShortcutIdle /\ ParseIdle /\ OverrideIdle /\ ThemeIdle /\ IconIdle /\ ItemInit
        /\ CornerInit /\ StarterInit /\ MenuInit /\ ThreadInit

SpecCorner == InitCorner /\ [][CornerNext]_vars

StarterNext ==
    \/ \E n \in {1, 2, 3} : StoreTheme(n)
    \/ \E n \in {4, 5}, id \in {"ocean", "forest"} : StoreCustomTheme(n, id)
    \/ StoreCustomId
    \/ StoreToggle
    \/ UpdateTheme
    \/ UpdateCustomId
    \/ UpdateToggle
    \/ UpdateEnd

InitStarter ==
    ShortcutIdle /\ ParseIdle /\ OverrideIdle /\ ThemeIdle /\ IconIdle /\ ItemInit
        /\ CornerInit /\ StarterInit /\ MenuInit /\ ThreadInit

SpecStarter == InitStarter /\ [][StarterNext]_vars

MenuNext == \E event \in MenuInputs : MenuFrame(event)

InitMenu ==
    ShortcutIdle /\ ParseIdle /\ OverrideIdle /\ ThemeIdle /\ IconIdle /\ ItemInit
        /\ CornerInit /\ StarterInit /\ MenuInit /\ ThreadInit

SpecMenu == InitMenu /\ [][MenuNext]_vars

ThreadNext ==
    \/ \E t \in ThreadIds : JustPressedInput(t)
    \/ \E t \in ThreadIds : JustPressedLock(t)
    \/ \E t \in ThreadIds : JustPressedGet(t)
    \/ \E t \in ThreadIds : JustPressedInsert(t)
    \/ \E t \in ThreadIds : JustPressedReturn(t)

\* The frame in which Ctrl+S becomes satisfied: the table has no entry for it
\* or holds false, the input has S pressed with Ctrl or Cmd held.
InitThread ==
    /\ SHORTCUT_STATES \in
           { NoStates,
             Insert(NoStates, ShortcutKey(KeyboardShortcut("S", TRUE, FALSE, FALSE, FALSE)),
                    FALSE) }
    /\ input \in { i \in Inputs : CurrentFramePressed(
                                     KeyboardShortcut("S", TRUE, FALSE, FALSE, FALSE), i) }
    /\ called = {}
    /\ observed = KeyboardShortcut("S", TRUE, FALSE, FALSE, FALSE)
    /\ frame_cond = <<>>
    /\ frame_result = <<>>
    /\ ParseIdle /\ OverrideIdle /\ ThemeIdle /\ IconIdle /\ ItemInit
    /\ CornerInit /\ StarterInit /\ MenuInit /\ ThreadInit

SpecThread == InitThread /\ [][ThreadNext]_vars

(***************************************************************************)
(* Properties of just_pressed.                                             *)
(***************************************************************************)
\* A frame where a maximal run of satisfied frames starts.
RunStart(conds, n) == conds[n] /\ (n = 1 \/ ~conds[n - 1])

\* C1: with just_pressed called once per frame for one shortcut identity, it
\* returns true in a frame iff the condition is satisfied in that frame and
\* was not satisfied at the previous call; so the true results are as many as
\* the maximal runs of satisfied frames, and [not-held, held, held, not-held,
\* held] gives true on the second and the fifth frame only.
C1_EdgeTriggered ==
    /\ Len(frame_result) = Len(frame_cond)
    /\ \A n \in 1..Len(frame_result) : frame_result[n] = RunStart(frame_cond, n)
    /\ Cardinality({n \in 1..Len(frame_result) : frame_result[n]})
         = Cardinality({n \in 1..Len(frame_cond) : RunStart(frame_cond, n)})
    /\ frame_cond = <<FALSE, TRUE, TRUE, FALSE, TRUE>>
         => frame_result = <<FALSE, TRUE, FALSE, FALSE, TRUE>>

C1_Witness ==
    /\ frame_cond = <<FALSE, TRUE, TRUE, FALSE, TRUE>>
    /\ frame_result = <<FALSE, TRUE, FALSE, FALSE, TRUE>>

\* The condition as the policy states it.
PolicySatisfied(s, i) ==
    /\ \/ s.ctrl /\ (i.ctrl \/ i.command)
       \/ ~s.ctrl /\ ~i.ctrl /\ ~i.command
    /\ i.alt = s.alt
    /\ i.shift = s.shift

\* C2: in a frame where the shortcut's key is pressed, the condition that
\* just_pressed tests is satisfied exactly when Ctrl is required and Ctrl or
\* Cmd is held, or Ctrl is not required and neither is held, and Alt and
\* Shift are held exactly as the shortcut requires.
C2_ModifierPolicy ==
    (observed \in called /\ observed.key \in input.pressed)
        => frame_cond[Len(frame_cond)] = PolicySatisfied(observed, input)

C2_Witness ==
    /\ observed \in called
    /\ observed.key \in input.pressed
    /\ observed.ctrl /\ input.command /\ ~input.ctrl
    /\ frame_cond[Len(frame_cond)]

(***************************************************************************)
(* Properties of from_string and display_string.                           *)
(***************************************************************************)
\* C3: from_string applied to the empty string returns Err(InvalidFormat).
C3_EmptyIsInvalidFormat ==
    (text = <<>> /\ parsed # NotCalled)
        => (parsed.kind = "Err" /\ parsed.err = "InvalidFormat")

\* What the format says of a text built from tokens.
Expected(b) ==
    IF \E n \in 1..Len(b.mods) : b.mods[n].field = None THEN "InvalidModifier"
    ELSE IF b.key.key = None THEN "InvalidKey"
    ELSE "Ok"

Required(b, field) == \E n \in 1..Len(b.mods) : b.mods[n].field = field

\* The canonical form: Ctrl, Alt, Shift, Cmd in this order, each followed by
\* '+', then the display name of the key.
Canonical(b) ==
    (IF Required(b, "ctrl") THEN "Ctrl+" ELSE "")
        \o (IF Required(b, "alt") THEN "Alt+" ELSE "")
        \o (IF Required(b, "shift") THEN "Shift+" ELSE "")
        \o (IF Required(b, "command") THEN "Cmd+" ELSE "")
        \o KeyName(b.key.key)

\* C5: for every valid text, display_string(from_string(text)) is the
\* canonical form of the modifiers the text requires and of its key, whatever
\* the order, letter case, alias or repetition of the modifier tokens.
C5_CanonicalDisplay ==
    shown # None => shown = Canonical(built_from)

C5_Witness ==
    /\ text = <<"S", "H", "I", "F", "T", "+", "C", "o", "n", "t", "r", "o", "l",
                "+", "P">>
    /\ shown = "Ctrl+Shift+P"

(***************************************************************************)
(* Properties of the themes with overrides.                                *)
(***************************************************************************)
\* The argument given for a field: that of the parameter named like it.
HasParam(f) == \E n \in 1..Len(OverrideParams) : OverrideParams[n] = f
ArgFor(a, f) == a[CHOOSE n \in 1..Len(OverrideParams) : OverrideParams[n] = f]

\* C8: the theme light_with_overrides / dark_with_overrides returns has, in
\* each field whose argument is Some(v), the value v, and in every other
\* field (argument None, or no argument for the field) the value of the
\* built-in theme; with only the background given, it differs from the
\* built-in theme in background_color only.
C8_OverridesFrame ==
    ov_result # NotCalled =>
        /\ \A f \in ThemeFields :
              ov_result.value[f] =
                  (IF HasParam(f) /\ ArgFor(ov_args, f).some
                   THEN ArgFor(ov_args, f).v
                   ELSE BuiltIn(ov_base)[f])
        /\ (\A n \in 2..Len(OverrideParams) : ~ov_args[n].some) =>
              \A f \in ThemeFields \ {"background_color"} :
                  ov_result.value[f] = BuiltIn(ov_base)[f]

C8_Witness ==
    /\ ov_result # NotCalled
    /\ ov_base = "light"
    /\ ov_args[1] = Some(<<45, 45, 65>>)
    /\ \A n \in 2..Len(OverrideParams) : ~ov_args[n].some
    /\ ov_result.value.background_color = <<45, 45, 65>>
    /\ ov_result.value.hover_color = Light.hover_color

\* An argument list replaces field f and no other field of the built-in theme.
ReplacesOnly(base, a, f) ==
    LET theme == WithOverrides(base, a)
    IN  /\ theme[f] # BuiltIn(base)[f]
        /\ \A g \in ThemeFields \ {f} : theme[g] = BuiltIn(base)[g]

\* C9: every field of TitleBarTheme is independently replaceable: for each
\* field some argument list of the *_with_overrides function replaces that
\* field and no other.
C9_EveryFieldReplaceable ==
    ov_result # NotCalled =>
        \A f \in ThemeFields : \E a \in OverrideInputs : ReplacesOnly(ov_base, a, f)

(***************************************************************************)
(* Properties of the title bar's theme API.                                *)
(***************************************************************************)
\* C6: a switch_theme call on a title bar that has no provider, or whose
\* provider has no title-bar theme for the id, returns
\* Err(ThemeError::ThemeNotFound) and leaves every field of the title bar
\* and the context's visuals as they were.
C6_NotFoundChangesNothing ==
    [][ ( /\ last_op' = "switch_theme"
          /\ ops' = ops + 1
          /\ \/ tb.theme_provider = NoProvider
             \/ ~GetTitleBarTheme(tb.theme_provider, last_arg', tb.theme_mode).some )
        => ( /\ last_result' = "ThemeNotFound"
             /\ tb' = tb
             /\ ctx_visuals' = ctx_visuals ) ]_vars

C6_Witness ==
    /\ last_op = "switch_theme"
    /\ last_arg = "ghost"
    /\ tb.theme_provider = "app"
    /\ last_result = "ThemeNotFound"
    /\ ctx_visuals = "default"

\* The query reported a theme: the registry value on Windows, some output
\* of the command on macOS and Linux, or on Linux, when the command could
\* not be started, the GTK_THEME variable.
ReportsTheme(os, q) ==
    CASE os = "windows" ->
             q.started /\ ( Contains(q.stdout, <<"0", "x", "0">>)
                              \/ Contains(q.stdout, <<"0", "x", "1">>) )
      [] os = "macos" -> q.started /\ q.stdout # <<>>
      [] os = "linux" ->
             (q.started /\ q.stdout # <<>>) \/ (~q.started /\ q.gtk_theme.set)
      [] OTHER -> FALSE

\* C7: when the OS dark-mode query fails (the command cannot be started, or
\* it runs and reports no theme), the theme resolved for ThemeMode::System
\* by TitleBar::new, with_theme_mode and update_theme_mode is light(): every
\* theme field of the title bar that no option overrides is that of light().
C7_FailedQueryGivesLight ==
    (last_query.made /\ ~ReportsTheme(platform, last_query)) =>
        /\ last_op \in {"with_theme_mode", "update_theme_mode"} => ThemeOf(tb) = Light
        /\ last_op = "new" =>
              \A f \in ThemeFields :
                  (f \in DOMAIN last_arg /\ last_arg[f].some) \/ tb[f] = Light[f]

\* C10: after with_theme(theme), with_custom_light_theme(overrides) and
\* with_custom_dark_theme(overrides), every theme field of the title bar is
\* that of the theme applied (for the last two, the built-in theme with the
\* overrides), whatever the title bar held before.
C10_WithThemeAppliesAll ==
    last_op \in {"with_theme", "with_custom_light_theme", "with_custom_dark_theme"}
        => ThemeOf(tb) = last_arg

(***************************************************************************)
(* Properties of the override tuples and of the theme mode.                *)
(***************************************************************************)
\* The theme the comments of the override tuple promise: the field named on
\* element k has the value of element k when it is Some, every other field
\* has the built-in value.
DocumentedTheme(base, overrides) ==
    [f \in ThemeFields |->
        IF \E k \in 1..Len(TupleDoc) : TupleDoc[k] = f /\ overrides[k].some
        THEN LET k == CHOOSE n \in 1..Len(TupleDoc) : TupleDoc[n] = f
             IN  overrides[k].v
        ELSE base[f]]

\* C11: after update_custom_light_theme / update_custom_dark_theme the element
\* of the override tuple documented for field F has overridden field F of the
\* title bar's theme and no other field (tuple element 11 sets
\* submenu_background_color, 12 submenu_text_color, 13 submenu_hover_color,
\* 14 submenu_shortcut_color, 15 keyboard_selection_color, 16
\* submenu_keyboard_selection_color).
C11_TupleElementSetsDocumentedField ==
    /\ last_op = "update_custom_light_theme"
          => ThemeOf(tb) = DocumentedTheme(Light, last_arg)
    /\ last_op = "update_custom_dark_theme"
          => ThemeOf(tb) = DocumentedTheme(Dark, last_arg)

C13_SyncAppliesWholeTheme ==
    /\ (last_op = "sync_with_egui_theme" /\ tb.theme_mode = "System")
          => ThemeOf(tb) = (IF last_arg THEN Dark ELSE Light)
    /\ (last_op = "sync_with_system_theme" /\ tb.theme_mode = "System")
          => ThemeOf(tb) = (IF DetectSystemDarkMode(platform, last_query) THEN Dark ELSE Light)

(***************************************************************************)
(* Properties of the custom icons.                                         *)
(***************************************************************************)
\* The press transition of a shortcut occurs in the current frame: its
\* condition is satisfied now and was not in the previous frame.
PressTransition(s) ==
    CurrentFramePressed(s, input) /\ ~CurrentFramePressed(s, prev_input)

\* C14: handle_icon_shortcuts, called once in a frame, invokes the callback
\* of every icon that has a callback and a shortcut whose press transition
\* occurs in that frame, also when two icons carry the same shortcut.
C14_EveryPressedIconFires ==
    "A" \in handled
        => invoked["A"] =
              { k \in 1..Len(bars["A"].custom_icons) :
                  /\ bars["A"].custom_icons[k].callback
                  /\ bars["A"].custom_icons[k].shortcut.some
                  /\ PressTransition(bars["A"].custom_icons[k].shortcut.v) }

\* C15: the callbacks that handle_icon_shortcuts of title bar A invokes in a
\* frame are those it invokes when no operation of title bar B was ever
\* performed.
C15_InstancesShareNothing ==
    "A" \in handled => invoked["A"] = invoked_alone["A"]

\* C17: in every state of a title bar icon_animation_states has the length
\* of custom_icons and the state at index i was created for the icon at
\* index i.
C17_AnimationStatesAligned ==
    \A b \in BarIds :
        /\ Len(bars[b].icon_animation_states) = Len(bars[b].custom_icons)
        /\ \A k \in 1..Len(bars[b].icon_animation_states) :
               bars[b].icon_animation_states[k].owner = k

(***************************************************************************)
(* Properties of the menu items.                                           *)
(***************************************************************************)
\* The positions of a tree of submenu items: the sequences of child indices
\* from the root.
RECURSIVE Paths(_)
Paths(it) ==
    {<<>>} \cup UNION { { <<k>> \o p : p \in Paths(it.children[k]) } :
                        k \in 1..Len(it.children) }

RECURSIVE At(_, _)
At(it, p) == IF p = <<>> THEN it ELSE At(it.children[Head(p)], Tail(p))

\* b is a copy of a without callbacks: the same positions, at every position
\* the same label, shortcut, enabled flag and separator flag, no callback.
CopyWithoutCallbacks(a, b) ==
    /\ Paths(b) = Paths(a)
    /\ \A p \in Paths(a) :
          /\ At(b, p).label = At(a, p).label
          /\ At(b, p).shortcut = At(a, p).shortcut
          /\ At(b, p).enabled = At(a, p).enabled
          /\ At(b, p).separator_after = At(a, p).separator_after
          /\ Len(At(b, p).children) = Len(At(a, p).children)
          /\ At(b, p).callback = NoneOpt

C16_CloneShape ==
    /\ item_clone # NotCalled => CopyWithoutCallbacks(item, item_clone.value)
    /\ menu_clone # NotCalled =>
          /\ menu_clone.value.label = menu_item.label
          /\ menu_clone.value.enabled = menu_item.enabled
          /\ Len(menu_clone.value.subitems) = Len(menu_item.subitems)
          /\ \A k \in 1..Len(menu_item.subitems) :
                CopyWithoutCallbacks(menu_item.subitems[k], menu_clone.value.subitems[k])

\* C16: the clone of a SubMenuItem or MenuItem has the labels, shortcuts,
\* enabled flags, separator flags and children of the original, in the same
\* order at every depth, and no callback anywhere; taking the clone leaves
\* the original, callbacks included, as it was.
C16_CloneDropsCallbacks ==
    /\ []C16_CloneShape
    /\ [][(item_clone' # item_clone \/ menu_clone' # menu_clone)
             => (item' = item /\ menu_item' = menu_item)]_vars

\* C16 witness: an item with a callback of its own and a child with a
\* callback two levels down has been cloned, inside a cloned menu as well.
C16_Witness ==
    /\ item_clone # NotCalled
    /\ menu_clone # NotCalled
    /\ \E p \in Paths(item) : Len(p) = 2 /\ At(item, p).callback.some
    /\ Len(menu_item.subitems) > 0
    /\ menu_item.subitems[1].callback.some

(***************************************************************************)
(* Properties of apply_rounded_corners.                                    *)
(***************************************************************************)
\* C18: over any number of apply_rounded_corners calls the native call is
\* made at most once for a window, and a failing native call or an
\* unsupported handle type is only logged: every call returns to its caller.
C18_AtMostOnceAndNeverFatal ==
    /\ \A w \in Windows : native_calls[w] <= 1
    /\ last_corner # NoCornerCall =>
          /\ last_corner.outcome = "returned"
          /\ (last_corner.ran /\ last_corner.native = "Err")
                => last_corner.log[Len(last_corner.log)] = "failed to apply"
          /\ (INIT = "complete" /\ corner_calls = 1 /\ last_corner.handle.ok
                  /\ ~NativePtr(last_corner.handle))
                => last_corner.log = <<"not supported">>

\* C18 witness: the third call, after a first one whose native call was
\* made, makes none.
C18_Witness ==
    /\ corner_calls = 3
    /\ \E w \in Windows : native_calls[w] = 1
    /\ last_corner.handle.ok
    /\ NativePtr(last_corner.handle)
    /\ ~last_corner.ran


(***************************************************************************)
(* Properties of the starter application's requests.                       *)
(***************************************************************************)
\* Whether a request is pending in the static of that name.
Pending(f) ==
    CASE f = "toggle" -> TOGGLE_SIDEBAR
      [] f = "theme" -> THEME_CHANGE_REQUEST # 0
      [] f = "id" -> CUSTOM_THEME_ID_REQUEST.some

\* C19: update() reads and clears TOGGLE_SIDEBAR, THEME_CHANGE_REQUEST and
\* CUSTOM_THEME_ID_REQUEST in one atomic step each: every request raised by a
\* callback is either still pending or was acted on exactly once, a flag that
\* was consumed holds none until a callback stores again, and show_sidebar
\* has flipped once per toggle request acted on.
C19_ReadAndClearedOnce ==
    /\ \A f \in FlagNames :
          requests.raised[f] = requests.acted[f] + (IF Pending(f) THEN 1 ELSE 0)
    /\ app.show_sidebar = (requests.acted["toggle"] % 2 = 0)

\* One toggle request, two frames: the sidebar flipped once and stays so.
C19_Witness ==
    /\ requests.frames = 2
    /\ update_pc = "toggle done"
    /\ requests.raised["toggle"] = 1
    /\ requests.acted["toggle"] = 1
    /\ ~TOGGLE_SIDEBAR
    /\ ~app.show_sidebar

(***************************************************************************)
(* Properties of the menu interaction.                                     *)
(***************************************************************************)
\* The top-level menus whose submenu list is visible.
OpenMenus(st) == {i \in MenuIndexes : st.open_submenu = Some(i)}

\* A frame opened top-level menu a: a click on its enabled header while it
\* was not open, or Down on it while it was selected and nothing was open.
Opened(a) ==
    /\ MenuBarItems[a].enabled
    /\ menu_log.before.open_submenu # Some(a)
    /\ \/ menu_log.input.kind = "header" /\ menu_log.input.at = a
       \/ /\ menu_log.input.kind = "key" /\ menu_log.input.at = "Down"
          /\ menu_log.before.keyboard_navigation_active
          /\ ~menu_log.before.open_submenu.some
          /\ menu_log.before.selected_menu_index = Some(a)

\* C20: in every reachable state at most one top-level menu is open, and
\* opening top-level menu A while menu B is open leaves exactly A open.
C20_AtMostOneMenuOpen ==
    /\ Cardinality(OpenMenus(menu)) <= 1
    /\ menu.open_submenu.some => menu.open_submenu.v \in MenuIndexes
    /\ \A a \in MenuIndexes : Opened(a) => OpenMenus(menu) = {a}

\* File was open and a click on the header of Edit opened Edit.
C20_Witness ==
    /\ menu_log.before.open_submenu = Some(1)
    /\ menu_log.input = [kind |-> "header", at |-> 2, outside |-> FALSE]
    /\ OpenMenus(menu) = {2}

\* The frame's click was outside every header and submenu region as they
\* were shown when the frame began.
ClickedOutside ==
    \/ menu_log.input.kind = "outside"
    \/ menu_log.input.kind = "item" /\ menu_log.input.at > Len(OpenItems(menu_log.before))
    \/ menu_log.input.kind = "child" /\ menu_log.input.at > Len(OpenChildren(menu_log.before))

\* C21: while a top-level menu is open, a click outside every menu header and
\* submenu region closes it in that frame; in the frame in which a click
\* opened the menu the just-opened guard is set and the menu stays open, also
\* when that click reaches the close-on-outside-click check.
C21_OutsideClickCloses ==
    /\ menu_log.before.open_submenu.some /\ ClickedOutside => ~menu.open_submenu.some
    /\ \A a \in MenuIndexes :
          Opened(a) /\ menu_log.input.kind = "header" =>
              menu.open_submenu = Some(a) /\ menu.submenu_just_opened_frame

\* The click that opened File also reached the outside-click check, and File
\* is open.
C21_Witness ==
    /\ menu_log.input = [kind |-> "header", at |-> 1, outside |-> TRUE]
    /\ ~menu_log.before.open_submenu.some
    /\ menu.open_submenu = Some(1)
    /\ menu.submenu_just_opened_frame

\* The submenu item or child that the frame's input tried to activate: the
\* one clicked, or the one selected when Enter was pressed in keyboard
\* navigation.
Activated ==
    LET st == menu_log.before
        e == menu_log.input
        items == OpenItems(st)
        children == OpenChildren(st)
    IN  CASE e.kind = "item" /\ e.at <= Len(items) -> Some(items[e.at])
          [] e.kind = "child" /\ e.at <= Len(children) -> Some(children[e.at])
          [] e.kind = "key" /\ e.at = "Enter" /\ st.keyboard_navigation_active
               /\ st.force_open_child_subitem.some
               /\ st.selected_child_submenu_index.some ->
               Some(children[st.selected_child_submenu_index.v])
          [] e.kind = "key" /\ e.at = "Enter" /\ st.keyboard_navigation_active
               /\ st.open_submenu.some /\ ~st.force_open_child_subitem.some
               /\ st.selected_submenu_index.some ->
               Some(items[st.selected_submenu_index.v])
          [] OTHER -> NoneOpt

\* C22: activating a disabled submenu item, by pointer click or by Enter in
\* keyboard navigation, invokes no callback and leaves the open/closed state
\* of the menu as it was.
C22_DisabledItemInert ==
    Activated.some /\ ~Activated.v.enabled =>
        /\ menu_log.invoked = <<>>
        /\ menu.open_submenu = menu_log.before.open_submenu
        /\ menu.force_open_child_subitem = menu_log.before.force_open_child_subitem

\* Enter was pressed on the disabled Undo of the open Edit menu.
C22_Witness ==
    /\ menu_log.input.kind = "key" /\ menu_log.input.at = "Enter"
    /\ Activated.some /\ Activated.v.label = "Undo"
    /\ menu.open_submenu = Some(2)
    /\ menu_log.invoked = <<>>

\* How often a callback occurs in a sequence of invocations.
Count(callback, invocations) ==
    Cardinality({n \in 1..Len(invocations) : invocations[n] = callback})

JustPressedItems ==
    LET items == FlattenMenus(MenuBarItems)
    IN  {k \in 1..Len(items) :
            /\ items[k].shortcut.some
            /\ items[k].enabled
            /\ JustPressedResult(menu_log.states_before, items[k].shortcut.v,
                                 InputOf(menu_log.input))}

\* C24: in every frame in which the shortcut of an enabled submenu item is
\* just pressed, the item's callback is invoked, whether no menu, its own
\* menu or another menu is open; the frame leaves the menu as it was.
C24_ShortcutsBypassMenuState ==
    menu_log.frames > 0 =>
        /\ \A k \in JustPressedItems :
              Count(FlattenMenus(MenuBarItems)[k].callback.v, menu_log.invoked) = 1
        /\ menu_log.input.kind = "chord" =>
              /\ Len(menu_log.invoked) = Cardinality(JustPressedItems)
              /\ menu.open_submenu = menu_log.before.open_submenu

\* Ctrl+N was just pressed while Edit was open: New's callback ran and Edit
\* is still open.
C24_Witness ==
    /\ menu_log.input = [kind |-> "chord", at |-> "N", outside |-> FALSE]
    /\ menu_log.before.open_submenu = Some(2)
    /\ menu_log.invoked = <<"new">>
    /\ menu.open_submenu = Some(2)

(***************************************************************************)
(* Properties of just_pressed under concurrent calls.                      *)
(***************************************************************************)
\* C25: the read of the previous state and the write of the new state happen
\* inside one acquisition of the lock, so of the calls that several threads
\* make for one identity during one not-satisfied-to-satisfied transition at
\* most one returns true.
C25_OneTrueReturnPerTransition ==
    /\ \A t \in ThreadIds :
          threads[t].pc \in {"locked", "got", "inserted"} => mutex = Some(t)
    /\ true_returns <= 1

\* Every thread has called just_pressed twice, and one call returned true.
C25_Witness ==
    /\ \A t \in ThreadIds : threads[t].calls = 2
    /\ true_returns = 1

(***************************************************************************)
(* Properties of switch_theme and current_theme_id.                        *)
(***************************************************************************)
\* C26: switch_theme(ctx, id) returns Ok(()) and sets current_theme_id to id
\* only when the provider's title-bar theme for id was applied to all theme
\* fields and the provider's visuals for id were set on the context.
C26_SwitchAppliesThemeAndVisuals ==
    last_op = "switch_theme" /\ last_result = "Ok" =>
        /\ tb.current_theme_id = Some(last_arg)
        /\ tb.theme_provider # NoProvider
        /\ GetTitleBarTheme(tb.theme_provider, last_arg, tb.theme_mode).some
        /\ ThemeOf(tb) = GetTitleBarTheme(tb.theme_provider, last_arg, tb.theme_mode).v
        /\ GetEguiVisuals(tb.theme_provider, last_arg, tb.theme_mode).some
        /\ ctx_visuals = GetEguiVisuals(tb.theme_provider, last_arg, tb.theme_mode).v

\* The operations that replace the whole theme of a title bar.
ReplacesTheme ==
    {"update_theme_mode", "with_theme_mode", "update_custom_light_theme",
     "update_custom_dark_theme"}

\* C27: current_theme_id is Some(id) only if the theme fields are the ones
\* the provider returned for id at a successful switch_theme (in the mode
\* the title bar had then), and every operation that replaces the theme
\* leaves current_theme_id None.
C27_ThemeIdMatchesFields ==
    /\ tb.current_theme_id.some =>
          /\ tb.theme_provider # NoProvider
          /\ \E mode \in ThemeModes :
                LET theme == GetTitleBarTheme(tb.theme_provider, tb.current_theme_id.v, mode)
                IN  theme.some /\ ThemeOf(tb) = theme.v
    /\ last_op \in ReplacesTheme => tb.current_theme_id = NoneOpt

(***************************************************************************)
(* Shortcuts that require Cmd.                                             *)
(***************************************************************************)
\* C28: a shortcut that requires Cmd, such as the one parsed from "cmd+s"
\* (command set, ctrl unset), makes just_pressed return true only in frames
\* where Cmd is held; its key pressed with no modifier held never fires it.
C28_CmdShortcutNeedsCmd ==
    LET cmd_s == FromString(<<"c", "m", "d", "+", "s">>)
    IN  /\ cmd_s = Ok(KeyboardShortcut("S", FALSE, FALSE, FALSE, TRUE))
        /\ ( /\ observed.command /\ ~observed.ctrl
             /\ observed \in called
             /\ frame_result # <<>>
             /\ frame_result[Len(frame_result)] )
           => input.command

C30_RenderIndexesInBounds ==
    \A b \in BarIds :
        \A k \in bars[b].render_log.accessed : k <= bars[b].render_log.len

\* A bar whose second icon is animated was rendered while the vector of
\* states was shorter than the list of icons.
C30_Witness ==
    /\ bars["A"].render_log.accessed = {2}
    /\ bars["A"].render_log.len_before < 2
    /\ Len(bars["A"].icon_animation_states) = 2

=============================================================================
